---- MODULE Spec2Model ----
(***************************************************************************)
(* Lunch ticket bot: the persistence store (src/database/manager.py), the  *)
(* payment handshake control (src/bot/views.py), the charge command        *)
(* (src/bot/commands.py) and the image upload event (src/bot/events.py).   *)
(*                                                                         *)
(* Amounts are NUMERIC in the database; they are modelled exactly, as      *)
(* integers counting units of 1/Scale.                                     *)
(***************************************************************************)
EXTENDS Integers, Sequences, FiniteSets, TLC

(***************************************************************************)
(* Bounds of the model.                                                    *)
(***************************************************************************)
\* longest price string enumerated for the parser, and the number of
\* fractional digits an amount keeps
MaxPriceLen == 3
\* most rows the transactions table holds
MaxTx == 2
\* last value of the logical clock behind CURRENT_TIMESTAMP
MaxClock == 3
\* most handler invocations in flight at once
MaxTasks == 2
\* how many times its own price a confirmation may leave the owner's balance
\* below the sum of the owner's unpaid transactions
MaxOverdraft == 1
\* most calls of store operations that raise
MaxFailures == 3

\* config/settings.py: the size of the connection pool
DB_MAX_CONNECTIONS == 10

\* SQL NULL / Python None, in a text column and in an integer column
NULL == "NULL"
NoId == 0

RECURSIVE Pow10(_)
Pow10(n) == IF n = 0 THEN 1 ELSE 10 * Pow10(n - 1)

Scale == Pow10(MaxPriceLen)

(***************************************************************************)
(* Price strings are sequences of characters.  "sup2" stands for the       *)
(* superscript two, a character str.isdigit() accepts and float() does     *)
(* not.                                                                    *)
(***************************************************************************)
Chars == {"0", "5", ".", "V", "sup2"}

DecimalDigits == {"0", "5"}

\* the default price of config/settings.py: "55.000 VND"
LUNCH_PRICE == <<"5", "5", ".", "0", "0", "0", " ", "V", "N", "D">>

RECURSIVE SeqsUpTo(_, _)
SeqsUpTo(S, n) ==
    IF n = 0 THEN {<<>>}
    ELSE LET shorter == SeqsUpTo(S, n - 1)
         IN  shorter \cup {Append(s, c) : s \in {t \in shorter : Len(t) = n - 1}, c \in S}

\* str.isdigit()
isdigit(c) == c \in DecimalDigits \cup {"sup2"}

DigitValue(c) == IF c = "5" THEN 5 ELSE 0

\* ''.join(filter(lambda x: x.isdigit() or x == '.', price_str))
FilterNumeric(price_str) == SelectSeq(price_str, LAMBDA c : isdigit(c) \/ c = ".")

\* how many characters of t are in the set S
Count(t, S) == Len(SelectSeq(t, LAMBDA c : c \in S))

\* the strings float() accepts among those made of digit characters and dots:
\* decimal digits with at most one dot and at least one digit
FloatAccepts(t) ==
    /\ \A i \in 1..Len(t) : t[i] \in DecimalDigits \cup {"."}
    /\ Count(t, {"."}) <= 1
    /\ Count(t, DecimalDigits) >= 1

RECURSIVE DigitsValue(_)
DigitsValue(ds) ==
    IF ds = <<>> THEN 0
    ELSE 10 * DigitsValue(SubSeq(ds, 1, Len(ds) - 1)) + DigitValue(ds[Len(ds)])

DotAt(t) ==
    IF \E i \in 1..Len(t) : t[i] = "."
    THEN CHOOSE i \in 1..Len(t) : t[i] = "."
    ELSE Len(t) + 1

\* float(t) for an accepted t, in units of 1/Scale
FloatValue(t) ==
    LET d    == DotAt(t)
        int  == SubSeq(t, 1, d - 1)
        frac == SubSeq(t, d + 1, Len(t))
    IN  DigitsValue(int) * Scale + DigitsValue(frac) * Pow10(MaxPriceLen - Len(frac))

\* a returned value or a raised ValueError
Returned(v) == [raised |-> FALSE, value |-> v]
ValueError == [raised |-> TRUE, value |-> 0]

\* DatabaseManager._extract_numeric, with what it hands its caller
extract_numeric_result(price_str) ==
    LET numeric_price == FilterNumeric(price_str)
    IN  IF FloatAccepts(numeric_price)
        THEN Returned(FloatValue(numeric_price))
        ELSE Returned(0)

extract_numeric(price_str) == extract_numeric_result(price_str).value

(***************************************************************************)
(* The store: users and transactions rows.                                 *)
(***************************************************************************)
\* guild members: 1 and 2 are charged users, 3 is an administrator (while in
\* administrators), 4 is a moderator holding manage_messages only
UserIds == {1, 2}
Members == UserIds \cup {3, 4}
Moderators == {4}

\* discord.Member.name
NameOf(m) == IF m = 1 THEN "ann" ELSE IF m = 2 THEN "bob" ELSE "staff"

NoUser == [present |-> FALSE, username |-> NULL, total_unpaid |-> 0]

EmptyDb == [users |-> [u \in UserIds |-> NoUser], transactions |-> <<>>]

\* the result of a store operation: the committed state, whether it raised
\* (everything rolled back), and the value returned
Done(d, r) == [db |-> d, raised |-> FALSE, ret |-> r]
Raised(d) == [db |-> d, raised |-> TRUE, ret |-> NoId]

TxIds(d) == 1..Len(d.transactions)

Unpaid(d, user_id) ==
    {t \in TxIds(d) : d.transactions[t].user_id = user_id /\ ~d.transactions[t].paid}

RECURSIVE SumPrices(_, _)
SumPrices(d, S) ==
    IF S = {} THEN 0
    ELSE LET t == CHOOSE x \in S : TRUE
         IN  d.transactions[t].total_price + SumPrices(d, S \ {t})

\* a variant of add_or_get_user with the first INSERT alone: a call without
\* a username overwrites the stored one
add_or_get_user_always_updating(d, user_id, username) ==
    Done([d EXCEPT !.users[user_id] = [@ EXCEPT !.present = TRUE, !.username = username]],
         username)

\* INSERT INTO users ... ON CONFLICT DO UPDATE SET username / DO NOTHING
add_or_get_user(d, user_id, username) ==
    LET row == d.users[user_id]
        new == IF username # NULL
               THEN [row EXCEPT !.present = TRUE, !.username = username]
               ELSE [row EXCEPT !.present = TRUE]
        ret == IF username # NULL THEN username
               ELSE IF row.present THEN NULL ELSE new.username
    IN  Done([d EXCEPT !.users[user_id] = new], ret)

NewTransaction(user_id, price, now) ==
    [user_id |-> user_id, lunch_price |-> price, total_price |-> extract_numeric(price),
     transaction_image |-> NULL, transaction_confirmed |-> FALSE, paid |-> FALSE,
     transaction_date |-> now, ticket_message_id |-> NoId]

\* INSERT INTO transactions; UPDATE users SET total_unpaid = total_unpaid + price.
\* The insert violates the foreign key when the user row is missing.
create_transaction(d, user_id, price, now) ==
    IF ~d.users[user_id].present THEN Raised(d)
    ELSE Done([d EXCEPT !.transactions = Append(@, NewTransaction(user_id, price, now)),
                        !.users[user_id].total_unpaid = @ + extract_numeric(price)],
              Len(d.transactions) + 1)

\* UPDATE transactions SET transaction_image, transaction_date, paid = FALSE
update_transaction(d, transaction_id, image_url, now) ==
    IF transaction_id \notin TxIds(d) THEN Done(d, NULL)
    ELSE Done([d EXCEPT !.transactions[transaction_id] =
                   [@ EXCEPT !.transaction_image = image_url,
                             !.transaction_date = now,
                             !.paid = FALSE]], NULL)

\* UPDATE transactions SET confirmed, paid; SELECT total_price (fetchone()[0]
\* raises when there is no such row); UPDATE users SET total_unpaid - total_price
confirm_transaction(d, transaction_id) ==
    IF transaction_id \notin TxIds(d) THEN Raised(d)
    ELSE LET t == d.transactions[transaction_id]
         IN  Done([d EXCEPT !.transactions[transaction_id] =
                        [@ EXCEPT !.transaction_confirmed = TRUE, !.paid = TRUE],
                             !.users[t.user_id].total_unpaid = @ - t.total_price], NULL)

\* a variant of confirm_all_user_transactions that subtracts the confirmed
\* prices from the balance instead of resetting it
confirm_all_running_subtraction(d, user_id) ==
    Done([d EXCEPT !.transactions =
              [t \in TxIds(d) |->
                  IF d.transactions[t].user_id = user_id /\ ~d.transactions[t].paid
                  THEN [d.transactions[t] EXCEPT !.transaction_confirmed = TRUE, !.paid = TRUE]
                  ELSE d.transactions[t]],
                   !.users[user_id] =
                       IF @.present
                       THEN [@ EXCEPT !.total_unpaid = @ - SumPrices(d, Unpaid(d, user_id))]
                       ELSE @], NULL)

\* UPDATE transactions SET confirmed, paid WHERE user_id AND paid = FALSE;
\* UPDATE users SET total_unpaid = 0
confirm_all_user_transactions(d, user_id) ==
    Done([d EXCEPT !.transactions =
              [t \in TxIds(d) |->
                  IF d.transactions[t].user_id = user_id /\ ~d.transactions[t].paid
                  THEN [d.transactions[t] EXCEPT !.transaction_confirmed = TRUE, !.paid = TRUE]
                  ELSE d.transactions[t]],
                   !.users[user_id] =
                       IF @.present THEN [@ EXCEPT !.total_unpaid = 0] ELSE @], NULL)

\* a variant of increment_commentation_with_price that charges the balance
\* with the digits of the price string, the decimal point dropped
increment_with_digits_only(d, user_id, price, now) ==
    LET d1 == [d EXCEPT !.users[user_id].present = TRUE]
    IN  Done([d1 EXCEPT !.transactions = Append(@, NewTransaction(user_id, price, now)),
                        !.users[user_id].total_unpaid =
                            @ + Scale * DigitsValue(SelectSeq(FilterNumeric(price),
                                                              LAMBDA c : c # "."))],
             Len(d.transactions) + 1)

\* INSERT INTO users ON CONFLICT DO NOTHING; INSERT INTO transactions;
\* UPDATE users SET total_unpaid = total_unpaid + price
increment_commentation_with_price(d, user_id, price, now) ==
    LET d1 == [d EXCEPT !.users[user_id].present = TRUE]
    IN  Done([d1 EXCEPT !.transactions = Append(@, NewTransaction(user_id, price, now)),
                        !.users[user_id].total_unpaid = @ + extract_numeric(price)],
             Len(d.transactions) + 1)

\* UPDATE transactions SET ticket_message_id WHERE transaction_id
set_ticket_message_id(d, transaction_id, message_id) ==
    IF transaction_id \notin TxIds(d) THEN Done(d, NULL)
    ELSE Done([d EXCEPT !.transactions[transaction_id].ticket_message_id = message_id], NULL)

\* a variant of clean_deleted_message_refs without the condition paid = FALSE
clean_refs_of_paid_too(d, message_ids) ==
    Done([d EXCEPT !.transactions =
              [t \in TxIds(d) |->
                  IF d.transactions[t].ticket_message_id \in message_ids
                  THEN [d.transactions[t] EXCEPT !.ticket_message_id = NoId]
                  ELSE d.transactions[t]]], NULL)

\* UPDATE transactions SET ticket_message_id = NULL
\* WHERE ticket_message_id = ANY(message_ids) AND paid = FALSE
clean_deleted_message_refs(d, message_ids) ==
    Done([d EXCEPT !.transactions =
              [t \in TxIds(d) |->
                  IF d.transactions[t].ticket_message_id \in message_ids /\ ~d.transactions[t].paid
                  THEN [d.transactions[t] EXCEPT !.ticket_message_id = NoId]
                  ELSE d.transactions[t]]], NULL)

\* SELECT SUM(total_price) ... WHERE user_id AND paid = FALSE
get_unpaid_total(d, user_id) == SumPrices(d, Unpaid(d, user_id))

\* SELECT COUNT(*) ... WHERE user_id AND paid = FALSE
get_unpaid_count(d, user_id) == Cardinality(Unpaid(d, user_id))

\* SELECT ticket_message_id ... WHERE user_id AND paid = FALSE AND ticket_message_id IS NOT NULL
get_user_ticket_message_ids(d, user_id) ==
    {d.transactions[t].ticket_message_id :
        t \in {x \in Unpaid(d, user_id) : d.transactions[x].ticket_message_id # NoId}}

\* the rows of get_active_tickets before ordering:
\* transactions JOIN users WHERE paid = FALSE AND ticket_message_id IS NOT NULL
ActiveRows(d) ==
    {t \in TxIds(d) : /\ d.users[d.transactions[t].user_id].present
                      /\ ~d.transactions[t].paid
                      /\ d.transactions[t].ticket_message_id # NoId}

\* a variant of the ordering: ORDER BY user_id, transaction_date ASC
SortsBeforeAscending(d, a, b) ==
    \/ d.transactions[a].user_id < d.transactions[b].user_id
    \/ /\ d.transactions[a].user_id = d.transactions[b].user_id
       /\ d.transactions[a].transaction_date < d.transactions[b].transaction_date

\* ORDER BY user_id, transaction_date DESC: row a sorts before row b
\* (rows equal in both keys come in either order)
SortsBefore(d, a, b) ==
    \/ d.transactions[a].user_id < d.transactions[b].user_id
    \/ /\ d.transactions[a].user_id = d.transactions[b].user_id
       /\ d.transactions[a].transaction_date > d.transactions[b].transaction_date

RECURSIVE OrderBy(_, _)
OrderBy(d, S) ==
    IF S = {} THEN <<>>
    ELSE LET first == CHOOSE a \in S : \A b \in S : ~SortsBefore(d, b, a)
         IN  <<first>> \o OrderBy(d, S \ {first})

\* SELECT DISTINCT ON (user_id): the first row of each run of equal user_id
DistinctOn(d, rows) ==
    SelectSeq([i \in 1..Len(rows) |-> [row |-> rows[i], first |->
                   i = 1 \/ d.transactions[rows[i]].user_id
                               # d.transactions[rows[i - 1]].user_id]],
              LAMBDA r : r.first)

\* get_active_tickets: the transaction ids of the rows returned, in order
get_active_tickets(d) ==
    LET rows == DistinctOn(d, OrderBy(d, ActiveRows(d)))
    IN  [i \in 1..Len(rows) |-> rows[i].row]

(***************************************************************************)
(* The schema: the objects create_tables names.                            *)
(***************************************************************************)
Objects == {"users", "transactions", "transactions.description",
            "idx_transactions_user_id", "idx_transactions_paid"}

\* what a database may hold when the process starts: nothing, the tables of
\* an earlier version (without the description column or the indexes), or
\* everything.  transactions references users; a column or an index needs
\* its table.
Schemas ==
    {S \in SUBSET Objects :
        /\ "transactions" \in S => "users" \in S
        /\ S \ {"users"} # {} => "transactions" \in S}

\* the statements of create_tables in order, on the uncommitted schema w:
\* ALTER TABLE transactions ADD COLUMN IF NOT EXISTS description (the table
\* has to exist); CREATE TABLE IF NOT EXISTS users; CREATE TABLE IF NOT
\* EXISTS transactions; CREATE INDEX IF NOT EXISTS, twice
create_tables_statement(w, i) ==
    CASE i = 1 -> IF "transactions" \in w
                  THEN [schema |-> w \cup {"transactions.description"}, raised |-> FALSE]
                  ELSE [schema |-> w, raised |-> TRUE]
      [] i = 2 -> [schema |-> w \cup {"users"}, raised |-> FALSE]
      [] i = 3 -> [schema |-> IF "transactions" \in w THEN w
                              ELSE w \cup {"transactions", "transactions.description"},
                   raised |-> FALSE]
      [] OTHER -> [schema |-> w \cup {"idx_transactions_user_id", "idx_transactions_paid"},
                   raised |-> FALSE]

RECURSIVE create_tables_from(_, _)
create_tables_from(w, i) ==
    IF i > 4 THEN [schema |-> w, raised |-> FALSE]
    ELSE LET r == create_tables_statement(w, i)
         IN  IF r.raised THEN r ELSE create_tables_from(r.schema, i + 1)

\* create_tables: the statements, then conn.commit(); on an exception
\* conn.rollback() and the exception raised again (the process exits)
create_tables(S) ==
    LET r == create_tables_from(S, 1)
    IN  IF r.raised THEN [schema |-> S, raised |-> TRUE] ELSE r

(***************************************************************************)
(* State.                                                                  *)
(***************************************************************************)
VARIABLES
    db,              \* the committed rows of users and transactions
    clock,           \* the logical time CURRENT_TIMESTAMP reads
    price_str,       \* the string handed to the price parser
    parsed,          \* what the parser handed back: empty before it ran
    administrators,  \* the members holding the administrator permission
    channels,        \* the users whose ticket channel exists
    tickets,         \* the ticket messages posted, each with its PaymentView;
                     \* a message's id is its index
    notices,         \* per channel, the "Payment proof submitted" messages in it
    verifications,   \* per channel, the verification messages in it
    images,          \* ImageStore._images: the pending image of each user
    members,         \* guild.members: the members still in the guild
    schema,          \* the tables, columns and indexes the database holds
    pool,            \* the connection pool: the connections checked out, and
                     \* how many calls of store operations have raised
    tasks            \* the handler invocations suspended at an await

store == <<db, clock>>
vars == <<db, clock, price_str, parsed, schema, pool, administrators, members, channels, tickets,
          notices, verifications, images, tasks>>

\* a handler invocation: the handler, the await it is suspended at, the
\* control (ticket) it was invoked on and its place in that control's lock
\* queue (1 holds the lock, 0 is outside it), and the handler's locals
Task == [kind |-> "none", pc |-> "none", ticket |-> NoId, turn |-> 0, image |-> NULL,
         actor |-> NoId, price |-> <<>>, targets |-> <<>>, idx |-> 0, tx |-> NoId,
         total_unpaid |-> 0, unpaid_count |-> 0, old_messages |-> {},
         processed |-> <<>>, failed |-> <<>>,
         active_tickets |-> <<>>, deleted_messages |-> <<>>, restored_count |-> 0]

\* the process at work on a database without rows
Started ==
    /\ db = EmptyDb
    /\ clock = 0
    /\ parsed = <<>>
    /\ administrators = {3}
    /\ members = Members
    /\ channels = {}
    /\ tickets = <<>>
    /\ notices = [u \in UserIds |-> 0]
    /\ verifications = [u \in UserIds |-> 0]
    /\ images = [u \in UserIds |-> NULL]
    /\ tasks = {}

\* everything but the parser's input: the schema is the one create_tables
\* leaves behind
InitState == Started /\ schema = Objects /\ pool = [used |-> 0, raised |-> 0]

Init == InitState /\ price_str = <<>>

bot == <<administrators, members, channels, tickets, notices, verifications, images, tasks>>

(***************************************************************************)
(* The price parser on its own.                                            *)
(***************************************************************************)
ParseInit ==
    /\ InitState
    /\ price_str \in SeqsUpTo(Chars, MaxPriceLen) \cup {LUNCH_PRICE}

ExtractNumeric ==
    /\ parsed = <<>>
    /\ parsed' = <<extract_numeric_result(price_str)>>
    /\ UNCHANGED <<db, clock, price_str, schema, pool, bot>>

ParseNext == ExtractNumeric

ParseSpec == ParseInit /\ [][ParseNext]_vars

(***************************************************************************)
(* The store on its own: its operations called in any order.               *)
(***************************************************************************)
PriceStrings == {LUNCH_PRICE, <<".", "5">>, <<"V">>}

\* the ids of the ticket messages the store is given
MessageIds == {1, 2}

StoreStep(res, tick) ==
    /\ db' = res.db
    /\ clock' = IF tick THEN clock + 1 ELSE clock
    /\ UNCHANGED <<price_str, parsed, schema, pool, bot>>

CanInsert == Len(db.transactions) < MaxTx /\ clock < MaxClock

AddOrGetUser(names) ==
    \E u \in UserIds, n \in names :
        StoreStep(add_or_get_user(db, u, n), FALSE)

CreateTransaction(prices) ==
    \E u \in UserIds, p \in prices :
        /\ CanInsert
        /\ StoreStep(create_transaction(db, u, p, clock + 1), TRUE)

IncrementCommentationWithPrice(prices) ==
    \E u \in UserIds, p \in prices :
        /\ CanInsert
        /\ StoreStep(increment_commentation_with_price(db, u, p, clock + 1), TRUE)

UpdateTransaction(urls) ==
    \E t \in 1..MaxTx, i \in urls :
        /\ clock < MaxClock
        /\ StoreStep(update_transaction(db, t, i, clock + 1), TRUE)

ConfirmTransaction ==
    \E t \in 1..MaxTx :
        /\ t \in TxIds(db) =>
              LET after == confirm_transaction(db, t).db
                  owner == db.transactions[t].user_id
              IN  get_unpaid_total(after, owner) - after.users[owner].total_unpaid
                      <= MaxOverdraft * db.transactions[t].total_price
        /\ StoreStep(confirm_transaction(db, t), FALSE)

ConfirmAllUserTransactions ==
    \E u \in UserIds :
        StoreStep(confirm_all_user_transactions(db, u), FALSE)

SetTicketMessageId(ids) ==
    \E t \in 1..MaxTx, m \in ids :
        StoreStep(set_ticket_message_id(db, t, m), FALSE)

CleanDeletedMessageRefs(ids) ==
    \E ms \in SUBSET ids :
        StoreStep(clean_deleted_message_refs(db, ms), FALSE)

StoreNext ==
    \/ AddOrGetUser({NULL})
    \/ CreateTransaction(PriceStrings)
    \/ IncrementCommentationWithPrice(PriceStrings)
    \/ UpdateTransaction({"img1"})
    \/ ConfirmTransaction
    \/ ConfirmAllUserTransactions
    \/ SetTicketMessageId(MessageIds)
    \/ CleanDeletedMessageRefs(MessageIds)

StoreSpec == Init /\ [][StoreNext]_vars

(***************************************************************************)
(* The start of the process: create_tables on the database as it is found, *)
(* then, with the schema in place, the operations of the store.            *)
(***************************************************************************)
SchemaInit ==
    Started /\ price_str = <<>> /\ schema \in Schemas /\ pool = [used |-> 0, raised |-> 0]

CreateTables ==
    /\ schema' = create_tables(schema).schema
    /\ UNCHANGED <<db, clock, price_str, parsed, pool, bot>>

SchemaNext ==
    \/ CreateTables
    \/ schema = Objects /\ AddOrGetUser({NULL, "ann", "bob"})
    \/ schema = Objects /\ CreateTransaction({LUNCH_PRICE})
    \/ schema = Objects /\ ConfirmAllUserTransactions

SchemaSpec == SchemaInit /\ [][SchemaNext]_vars

(***************************************************************************)
(* The store statement by statement: a mutating operation is a sequence of *)
(* cursor.execute calls on one connection, ended by conn.commit(), run     *)
(* inside with_connection.                                                 *)
(***************************************************************************)
\* a call of a mutating operation and its arguments
StoreCall(op, user_id, transaction_id, price, arg) ==
    [op |-> op, user_id |-> user_id, transaction_id |-> transaction_id,
     price |-> price, arg |-> arg]

Calls ==
    {StoreCall("add_or_get_user", u, NoId, <<>>, n) : u \in UserIds, n \in {NULL, "ann"}}
    \cup {StoreCall(op, u, NoId, p, NULL) :
             op \in {"create_transaction", "increment_commentation_with_price"},
             u \in UserIds, p \in PriceStrings}
    \cup {StoreCall("update_transaction", NoId, t, <<>>, "img1") : t \in 1..MaxTx}
    \cup {StoreCall("confirm_transaction", NoId, t, <<>>, NULL) : t \in 1..MaxTx}
    \cup {StoreCall("confirm_all_user_transactions", u, NoId, <<>>, NULL) : u \in UserIds}
    \cup {StoreCall("set_ticket_message_id", NoId, t, <<>>, NULL) : t \in 1..MaxTx}
    \cup {StoreCall("clean_deleted_message_refs", NoId, NoId, <<>>, NULL)}

\* the number of cursor.execute calls of the operation
statements(c) ==
    CASE c.op = "create_transaction" -> 2
      [] c.op = "confirm_transaction" -> 3
      [] c.op = "confirm_all_user_transactions" -> 2
      [] c.op = "increment_commentation_with_price" -> 3
      [] OTHER -> 1

\* the whole operation, as defined above
Whole(d, c, now) ==
    CASE c.op = "add_or_get_user" -> add_or_get_user(d, c.user_id, c.arg)
      [] c.op = "create_transaction" -> create_transaction(d, c.user_id, c.price, now)
      [] c.op = "update_transaction" -> update_transaction(d, c.transaction_id, c.arg, now)
      [] c.op = "confirm_transaction" -> confirm_transaction(d, c.transaction_id)
      [] c.op = "confirm_all_user_transactions" -> confirm_all_user_transactions(d, c.user_id)
      [] c.op = "increment_commentation_with_price" ->
             increment_commentation_with_price(d, c.user_id, c.price, now)
      [] c.op = "set_ticket_message_id" -> set_ticket_message_id(d, c.transaction_id, 1)
      [] c.op = "clean_deleted_message_refs" -> clean_deleted_message_refs(d, {1})

\* the i-th cursor.execute of the operation (with the fetch that follows it),
\* on the uncommitted rows w of its connection
execute(w, c, i, now) ==
    CASE c.op = "create_transaction" /\ i = 1 ->
             IF ~w.users[c.user_id].present THEN Raised(w)
             ELSE Done([w EXCEPT !.transactions =
                            Append(@, NewTransaction(c.user_id, c.price, now))], NULL)
      [] c.op = "create_transaction" /\ i = 2 ->
             Done([w EXCEPT !.users[c.user_id].total_unpaid = @ + extract_numeric(c.price)],
                  NULL)
      [] c.op = "confirm_transaction" /\ i = 1 ->
             IF c.transaction_id \notin TxIds(w) THEN Done(w, NULL)
             ELSE Done([w EXCEPT !.transactions[c.transaction_id] =
                            [@ EXCEPT !.transaction_confirmed = TRUE, !.paid = TRUE]], NULL)
      [] c.op = "confirm_transaction" /\ i = 2 ->
             IF c.transaction_id \notin TxIds(w) THEN Raised(w) ELSE Done(w, NULL)
      [] c.op = "confirm_transaction" /\ i = 3 ->
             LET t == w.transactions[c.transaction_id]
             IN  Done([w EXCEPT !.users[t.user_id].total_unpaid = @ - t.total_price], NULL)
      [] c.op = "confirm_all_user_transactions" /\ i = 1 ->
             Done([w EXCEPT !.transactions =
                      [t \in TxIds(w) |->
                          IF w.transactions[t].user_id = c.user_id /\ ~w.transactions[t].paid
                          THEN [w.transactions[t] EXCEPT !.transaction_confirmed = TRUE,
                                                         !.paid = TRUE]
                          ELSE w.transactions[t]]], NULL)
      [] c.op = "confirm_all_user_transactions" /\ i = 2 ->
             Done([w EXCEPT !.users[c.user_id] =
                      IF @.present THEN [@ EXCEPT !.total_unpaid = 0] ELSE @], NULL)
      [] c.op = "increment_commentation_with_price" /\ i = 1 ->
             Done([w EXCEPT !.users[c.user_id].present = TRUE], NULL)
      [] c.op = "increment_commentation_with_price" /\ i = 2 ->
             Done([w EXCEPT !.transactions =
                      Append(@, NewTransaction(c.user_id, c.price, now))], NULL)
      [] c.op = "increment_commentation_with_price" /\ i = 3 ->
             Done([w EXCEPT !.users[c.user_id].total_unpaid = @ + extract_numeric(c.price)],
                  NULL)
      [] OTHER -> Whole(w, c, now)

\* what a call meets: no fault, or its statement number `at` raising a
\* connection error (OperationalError, InterfaceError) or another error
NoFault == [at |-> 0, error |-> "none"]
Faults(c) ==
    {NoFault} \cup {[at |-> i, error |-> e] :
                       i \in 1..statements(c), e \in {"connection", "other"}}

\* the function body from statement i on: the uncommitted rows it ends with
\* and whether it raised
RECURSIVE run(_, _, _, _, _)
run(w, c, i, fault, now) ==
    IF i > statements(c) THEN Done(w, NULL)
    ELSE IF fault.at = i THEN Raised(w)
    ELSE LET r == execute(w, c, i, now)
         IN  IF r.raised THEN Raised(r.db) ELSE run(r.db, c, i + 1, fault, now)

\* a variant of with_connection that keeps what the statements wrote before
\* the error
with_connection_without_rollback(d, c, fault, now) ==
    LET r == run(d, c, 1, fault, now)
    IN  [db |-> r.db, raised |-> r.raised, attempts |-> 1]

\* with_connection: one connection from the pool, the function called once
\* on it; on any exception conn.rollback() and the exception raised again;
\* the rows are committed by the conn.commit() that ends the function
with_connection(d, c, fault, now) ==
    LET r == run(d, c, 1, fault, now)
    IN  IF r.raised
        THEN [db |-> d, raised |-> TRUE, attempts |-> 1]
        ELSE [db |-> r.db, raised |-> FALSE, attempts |-> 1]

\* the operations reading CURRENT_TIMESTAMP
Stamps(c) ==
    c.op \in {"create_transaction", "increment_commentation_with_price", "update_transaction"}

WithConnection ==
    \E c \in Calls :
        \E fault \in Faults(c) :
            /\ Stamps(c) => clock < MaxClock
            /\ c.op \in {"create_transaction", "increment_commentation_with_price"}
                   => CanInsert
            /\ (c.op = "confirm_transaction" /\ c.transaction_id \in TxIds(db)) =>
                  LET after == confirm_transaction(db, c.transaction_id).db
                      owner == db.transactions[c.transaction_id].user_id
                  IN  get_unpaid_total(after, owner) - after.users[owner].total_unpaid
                          <= MaxOverdraft * db.transactions[c.transaction_id].total_price
            /\ StoreStep(with_connection(db, c, fault, clock + 1), Stamps(c))

ConnNext == WithConnection

ConnSpec == Init /\ [][ConnNext]_vars

(***************************************************************************)
(* The connection pool around the operations.  The operations run without  *)
(* an await, one at a time.                                                *)
(***************************************************************************)
\* _pool.getconn(): PoolError when every connection is checked out
getconn(used) ==
    IF used >= DB_MAX_CONNECTIONS THEN [used |-> used, raised |-> TRUE]
    ELSE [used |-> used + 1, raised |-> FALSE]

\* _pool.putconn(conn)
putconn(used) == used - 1

\* a variant of wrapper that returns the connection after the function
\* returned, and not when it raised
wrapper_returning_on_success(used, d, c, fault, now) ==
    LET got == getconn(used)
        r   == with_connection(d, c, fault, now)
    IN  IF got.raised THEN [db |-> d, raised |-> TRUE, used |-> used]
        ELSE [db |-> r.db, raised |-> r.raised,
              used |-> IF r.raised THEN got.used ELSE putconn(got.used)]

\* the wrapper of with_connection with its pool: get_connection, the
\* function, the except clauses (with no connection there is nothing to
\* roll back), and in the finally clause return_connection if a connection
\* was got
wrapper(used, d, c, fault, now) ==
    LET got == getconn(used)
        r   == with_connection(d, c, fault, now)
    IN  IF got.raised THEN [db |-> d, raised |-> TRUE, used |-> used]
        ELSE [db |-> r.db, raised |-> r.raised, used |-> putconn(got.used)]

\* the calls made for one user and the first transaction
PoolCalls ==
    {c \in Calls : /\ c.user_id \in {NoId, 1} /\ c.transaction_id \in {NoId, 1}
                   /\ c.price \in {<<>>, LUNCH_PRICE}}

Serve ==
    \E c \in PoolCalls :
        \E fault \in Faults(c) :
            LET r == wrapper(pool.used, db, c, fault, clock + 1)
            IN  /\ Stamps(c) => clock < MaxClock
                /\ c.op \in {"create_transaction", "increment_commentation_with_price"}
                       => CanInsert
                /\ r.raised => pool.raised < MaxFailures
                \* a balance is taken below zero by no more than one price
                /\ c.op = "confirm_transaction" => db.users[1].total_unpaid >= 0
                /\ db' = r.db
                /\ clock' = IF Stamps(c) THEN clock + 1 ELSE clock
                /\ pool' = [used |-> r.used,
                            raised |-> IF r.raised THEN pool.raised + 1 ELSE pool.raised]
                /\ UNCHANGED <<price_str, parsed, schema, bot>>

PoolNext == Serve

PoolSpec == Init /\ [][PoolNext]_vars

(***************************************************************************)
(* The bot: the charge command, the image upload event and the two         *)
(* buttons of a PaymentView.  asyncio runs one coroutine at a time, so a   *)
(* handler runs from one await to the next in one step.  Each handler      *)
(* segment is an operator from the state to the state it leaves.           *)
(***************************************************************************)
Cur == [db |-> db, clock |-> clock, administrators |-> administrators,
        members |-> members, channels |-> channels, tickets |-> tickets, notices |-> notices,
        verifications |-> verifications, images |-> images, tasks |-> tasks]

Becomes(s) ==
    /\ db' = s.db
    /\ clock' = s.clock
    /\ administrators' = s.administrators
    /\ members' = s.members
    /\ channels' = s.channels
    /\ tickets' = s.tickets
    /\ notices' = s.notices
    /\ verifications' = s.verifications
    /\ images' = s.images
    /\ tasks' = s.tasks
    /\ UNCHANGED <<price_str, parsed, schema, pool>>

\* ctx.author.guild_permissions.administrator
guild_administrator(s, m) == m \in s.administrators

\* interaction.channel.permissions_for(interaction.user)
permissions_for(s, m) ==
    [administrator |-> m \in s.administrators,
     manage_messages |-> m \in s.administrators \/ m \in Moderators]

\* a variant of validate_price that lets a price of zero through
validate_price_nonnegative(price) ==
    LET numeric_price == FilterNumeric(price)
    IN  IF FloatAccepts(numeric_price)
        THEN Returned(FloatValue(numeric_price))
        ELSE ValueError

\* the price validation of the lunch command: the filtered string must parse
\* and be positive
validate_price(price) ==
    LET numeric_price == FilterNumeric(price)
    IN  IF FloatAccepts(numeric_price) /\ FloatValue(numeric_price) > 0
        THEN Returned(FloatValue(numeric_price))
        ELSE ValueError

TicketIds(s) == 1..Len(s.tickets)

\* PaymentView.__init__ and the message the view is sent on.  issuer is the
\* author of the command that posted the message; attached tells that the
\* running process holds a view for the message
NewTicket(user, admin, transaction_id) ==
    [user |-> user, admin |-> admin, transaction_id |-> transaction_id,
     submit_disabled |-> FALSE, verify_disabled |-> FALSE,
     alive |-> TRUE, shown_disabled |-> FALSE, verified |-> FALSE,
     issuer |-> admin, attached |-> TRUE]

\* asyncio.Lock of a view: the invocations queued on it, served in order
Queue(s, k) == {t \in s.tasks : t.ticket = k /\ t.turn > 0}

\* a variant of Enqueue for a view without a lock: every invocation enters
enqueue_unlocked(s, t) == [t EXCEPT !.turn = 1]

\* async with self._lock, entering: the invocation joins the queue
Enqueue(s, t) == [t EXCEPT !.turn = Cardinality(Queue(s, t.ticket)) + 1]

\* the handler returns (leaving the lock if it holds it)
Leave(s, t) ==
    [s EXCEPT !.tasks =
        {IF x.ticket = t.ticket /\ x.turn > 1 /\ t.turn = 1
         THEN [x EXCEPT !.turn = @ - 1] ELSE x : x \in @ \ {t}}]

\* the handler goes on to its next await
Goes(s, t, t2) == [s EXCEPT !.tasks = (@ \ {t}) \cup {t2}]

\* the inserts the charges in flight have still to make
Pending(t) == IF t.kind = "charge" /\ t.pc # "report" THEN Len(t.targets) - t.idx ELSE 0

RECURSIVE SumPending(_)
SumPending(S) ==
    IF S = {} THEN 0
    ELSE LET t == CHOOSE x \in S : TRUE IN Pending(t) + SumPending(S \ {t})

Reserved(s) == SumPending(s.tasks)

(* ------------------------------ events --------------------------------- *)

\* on_message: an attachment posted in a ticket channel replaces the
\* author's pending image
on_message(s, author, attachment) == [s EXCEPT !.images[author] = attachment]

UploadImage(urls) ==
    \E u \in UserIds, img \in urls :
        /\ u \in channels
        /\ Becomes(on_message(Cur, u, img))

\* the guild grants or revokes a member's administrator permission
ChangeAdministrators(candidates) ==
    \E A \in SUBSET candidates :
        /\ A # administrators
        /\ Becomes([Cur EXCEPT !.administrators = A])

(* ------------------------------ the charge ----------------------------- *)

\* lunch, one user's turn up to its first await: upsert the user, insert the
\* transaction, read the totals; then create_ticket_channel is awaited
begin_user(s, t) ==
    LET user == t.targets[t.idx]
        now  == s.clock + 1
        d1   == add_or_get_user(s.db, user, NameOf(user)).db
        r    == increment_commentation_with_price(d1, user, t.price, now)
    IN  [s EXCEPT !.db = r.db, !.clock = now,
                  !.tasks = @ \cup {[t EXCEPT !.pc = "channel", !.tx = r.ret,
                                       !.total_unpaid = get_unpaid_total(r.db, user),
                                       !.unpaid_count = get_unpaid_count(r.db, user),
                                       !.old_messages = {}]}]

\* a variant of next_user in which a failure ends the command: the users
\* after the failed one are not processed
next_user_abort_on_failure(s, t, ok) ==
    LET user == t.targets[t.idx]
        t1   == IF ok THEN [t EXCEPT !.processed = Append(@, user)]
                      ELSE [t EXCEPT !.failed = Append(@, user)]
        t2   == [t1 EXCEPT !.idx = @ + 1]
        s1   == [s EXCEPT !.tasks = @ \ {t}]
    IN  IF ok /\ t2.idx <= Len(t2.targets)
        THEN begin_user(s1, t2)
        ELSE [s1 EXCEPT !.tasks = @ \cup {[t2 EXCEPT !.pc = "report", !.tx = NoId,
                                                     !.old_messages = {}]}]

\* a variant of next_user that records nothing for a user whose turn failed
next_user_dropping_failures(s, t, ok) ==
    LET user == t.targets[t.idx]
        t1   == IF ok THEN [t EXCEPT !.processed = Append(@, user)] ELSE t
        t2   == [t1 EXCEPT !.idx = @ + 1]
        s1   == [s EXCEPT !.tasks = @ \ {t}]
    IN  IF t2.idx <= Len(t2.targets)
        THEN begin_user(s1, t2)
        ELSE [s1 EXCEPT !.tasks = @ \cup {[t2 EXCEPT !.pc = "report", !.tx = NoId,
                                                     !.old_messages = {}]}]

\* the end of one user's turn of the loop: the user joins one of the two
\* lists and the next user's turn begins, or the lists are reported
next_user(s, t, ok) ==
    LET user == t.targets[t.idx]
        t1   == IF ok THEN [t EXCEPT !.processed = Append(@, user)]
                      ELSE [t EXCEPT !.failed = Append(@, user)]
        t2   == [t1 EXCEPT !.idx = @ + 1]
        s1   == [s EXCEPT !.tasks = @ \ {t}]
    IN  IF t2.idx <= Len(t2.targets)
        THEN begin_user(s1, t2)
        ELSE [s1 EXCEPT !.tasks = @ \cup {[t2 EXCEPT !.pc = "report", !.tx = NoId,
                                                     !.old_messages = {}]}]

\* !lunch <price> @users: the permission check and the checks of the
\* arguments, then the first user's turn
lunch(s, author, price, users) ==
    IF ~guild_administrator(s, author) \/ users = <<>> \/ validate_price(price).raised
    THEN s
    ELSE begin_user(s, [Task EXCEPT !.kind = "charge", !.actor = author, !.price = price,
                                    !.targets = users, !.idx = 1])

InvokeCharge(actors, prices, targetlists) ==
    \E actor \in actors, price \in prices, targets \in targetlists :
        /\ Cardinality(tasks) < MaxTasks
        /\ Len(db.transactions) + Reserved(Cur) + Len(targets) <= MaxTx
        /\ clock + Reserved(Cur) + Len(targets) <= MaxClock
        /\ Becomes(lunch(Cur, actor, price, targets))

\* create_ticket_channel returned the user's channel: the tracked message
\* ids of the user's unpaid transactions are read; or it failed
charge_channel(s, t, ok) ==
    LET user == t.targets[t.idx]
    IN  IF ok
        THEN Goes([s EXCEPT !.channels = @ \cup {user}], t,
                  [t EXCEPT !.pc = "cleanup",
                            !.old_messages = get_user_ticket_message_ids(s.db, user)])
        ELSE next_user(s, t, FALSE)

\* the old ticket messages are fetched and deleted.  "deleted": those still
\* there are deleted; "swallowed": NotFound or Forbidden on each, ignored;
\* "error": another error ends the user's turn
charge_cleanup(s, t, outcome) ==
    IF outcome = "deleted"
    THEN Goes([s EXCEPT !.tickets =
                  [k \in TicketIds(s) |->
                      IF k \in t.old_messages THEN [s.tickets[k] EXCEPT !.alive = FALSE]
                      ELSE s.tickets[k]]], t, [t EXCEPT !.pc = "post"])
    ELSE IF outcome = "swallowed" THEN Goes(s, t, [t EXCEPT !.pc = "post"])
    ELSE next_user(s, t, FALSE)

\* a variant of charge_post that does not store the id of the message sent
charge_post_without_message_id(s, t, ok) ==
    IF ok
    THEN LET user == t.targets[t.idx]
         IN  next_user([s EXCEPT !.tickets = Append(@, NewTicket(user, t.actor, t.tx))],
                       t, TRUE)
    ELSE next_user(s, t, FALSE)

\* the summary was sent with a new PaymentView and its message id is stored
\* on the transaction; or the send failed
charge_post(s, t, ok) ==
    IF ok
    THEN LET user == t.targets[t.idx]
             id   == Len(s.tickets) + 1
         IN  next_user([s EXCEPT !.tickets = Append(@, NewTicket(user, t.actor, t.tx)),
                                 !.db = set_ticket_message_id(@, t.tx, id).db], t, TRUE)
    ELSE next_user(s, t, FALSE)

ChargeChannel ==
    \E t \in tasks, ok \in BOOLEAN :
        /\ t.kind = "charge" /\ t.pc = "channel"
        /\ Becomes(charge_channel(Cur, t, ok))

ChargeCleanup ==
    \E t \in tasks, outcome \in {"deleted", "swallowed", "error"} :
        /\ t.kind = "charge" /\ t.pc = "cleanup"
        /\ outcome # "deleted" => \E k \in t.old_messages : tickets[k].alive
        /\ Becomes(charge_cleanup(Cur, t, outcome))

ChargePost ==
    \E t \in tasks, ok \in BOOLEAN :
        /\ t.kind = "charge" /\ t.pc = "post"
        /\ Becomes(charge_post(Cur, t, ok))

\* the two lists are sent and the command returns
ChargeReport ==
    \E t \in tasks :
        /\ t.kind = "charge" /\ t.pc = "report"
        /\ Becomes(Leave(Cur, t))

(* ------------------------------ Submit Proof --------------------------- *)

\* a variant of submit_locked that goes on without a pending image
submit_locked_without_image(s, t) ==
    [t EXCEPT !.pc = "write", !.image = s.images[s.tickets[t.ticket].user]]

\* submit_payment inside the lock: read the pending image; without one the
\* handler answers with the retry prompt, with one it answers "Processing"
submit_locked(s, t) ==
    LET image == s.images[s.tickets[t.ticket].user]
    IN  IF image = NULL THEN [t EXCEPT !.pc = "reject"]
        ELSE [t EXCEPT !.pc = "write", !.image = image]

\* a variant of submit_payment that lets every member of the channel submit
submit_payment_any_member(s, k, actor) ==
    LET t == Enqueue(s, [Task EXCEPT !.kind = "submit", !.pc = "wait", !.ticket = k])
    IN  [s EXCEPT !.tasks = @ \cup {IF t.turn = 1 THEN submit_locked(s, t) ELSE t}]

\* submit_payment up to its first await
submit_payment(s, k, actor) ==
    IF actor # s.tickets[k].user THEN s
    ELSE LET t == Enqueue(s, [Task EXCEPT !.kind = "submit", !.pc = "wait", !.ticket = k])
         IN  [s EXCEPT !.tasks = @ \cup {IF t.turn = 1 THEN submit_locked(s, t) ELSE t}]

\* a variant of submit_write that posts the notice first and leaves the
\* write for later
submit_write_after_notice(s, t) ==
    Goes([s EXCEPT !.notices[s.tickets[t.ticket].user] = 1], t, [t EXCEPT !.pc = "notify"])

\* db_manager.update_transaction(self.transaction_id, image.url)
submit_write(s, t) ==
    LET now == s.clock + 1
    IN  Goes([s EXCEPT !.db = update_transaction(@, s.tickets[t.ticket].transaction_id,
                                                 t.image, now).db,
                       !.clock = now], t, [t EXCEPT !.pc = "notify"])

\* the rest of submit_payment.  "ok": old notices deleted, the new notice
\* sent, the button disabled and the message edited, the pending image
\* cleared; "edit_fails": the edit of the message raises; "send_fails": the
\* notice is not sent.  A failure leaves the lock for the except clause.
submit_notify(s, t, outcome) ==
    LET k == t.ticket
        u == s.tickets[k].user
    IN  IF outcome = "ok"
        THEN Leave([s EXCEPT !.notices[u] = 1,
                             !.tickets[k].submit_disabled = TRUE,
                             !.tickets[k].shown_disabled = TRUE,
                             !.images[u] = NULL], t)
        ELSE IF outcome = "edit_fails"
        THEN Leave([s EXCEPT !.notices[u] = 1, !.tickets[k].submit_disabled = TRUE], t)
        ELSE Leave([s EXCEPT !.notices[u] = 0], t)

InvokeSubmit(actors) ==
    \E k \in TicketIds(Cur), actor \in actors :
        /\ Cardinality(tasks) < MaxTasks
        /\ tickets[k].alive /\ tickets[k].attached /\ ~tickets[k].shown_disabled
        /\ Becomes(submit_payment(Cur, k, actor))

\* the lock is handed to a waiting Submit Proof
SubmitResume ==
    \E t \in tasks :
        /\ t.kind = "submit" /\ t.pc = "wait" /\ t.turn = 1
        /\ Becomes(Goes(Cur, t, submit_locked(Cur, t)))

\* the retry prompt is sent and the handler returns
SubmitReject ==
    \E t \in tasks :
        /\ t.kind = "submit" /\ t.pc = "reject"
        /\ Becomes(Leave(Cur, t))

SubmitWrite ==
    \E t \in tasks :
        /\ t.kind = "submit" /\ t.pc = "write"
        /\ clock + Reserved(Cur) < MaxClock
        /\ Becomes(submit_write(Cur, t))

SubmitNotify ==
    \E t \in tasks, outcome \in {"ok", "edit_fails", "send_fails"} :
        /\ t.kind = "submit" /\ t.pc = "notify"
        /\ outcome = "ok" => tickets[t.ticket].alive
        /\ Becomes(submit_notify(Cur, t, outcome))

(* ------------------------------ Verify --------------------------------- *)

\* a variant of verify_locked that confirms the bound transaction alone
verify_locked_bound_only(s, t) ==
    Goes([s EXCEPT !.db = confirm_transaction(@, s.tickets[t.ticket].transaction_id).db],
         t, [t EXCEPT !.pc = "cleanup"])

\* verify_payment inside the lock, up to its first await:
\* db_manager.confirm_all_user_transactions(self.user.id)
verify_locked(s, t) ==
    Goes([s EXCEPT !.db = confirm_all_user_transactions(@, s.tickets[t.ticket].user).db],
         t, [t EXCEPT !.pc = "cleanup"])

\* a variant of verify_payment that trusts the admin bound to the view
\* instead of the actor's permissions in the channel
verify_payment_bound_admin(s, k, actor) ==
    IF actor # s.tickets[k].admin THEN s
    ELSE LET t  == Enqueue(s, [Task EXCEPT !.kind = "verify", !.pc = "wait",
                                           !.ticket = k])
             s1 == [s EXCEPT !.tasks = @ \cup {t}]
         IN  IF t.turn = 1 THEN verify_locked(s1, t) ELSE s1

\* verify_payment up to its first await
verify_payment(s, k, actor) ==
    LET member_perms == permissions_for(s, actor)
    IN  IF ~(member_perms.administrator \/ member_perms.manage_messages) THEN s
        ELSE LET t  == Enqueue(s, [Task EXCEPT !.kind = "verify", !.pc = "wait",
                                               !.ticket = k])
                 s1 == [s EXCEPT !.tasks = @ \cup {t}]
             IN  IF t.turn = 1 THEN verify_locked(s1, t) ELSE s1

\* the rest of verify_payment.  "ok": every bot message of the channel
\* deleted, the verification message and the answer sent; "send_fails": the
\* messages deleted, the verification message not sent; "delete_fails": a
\* delete raises.
verify_cleanup(s, t, outcome) ==
    LET k == t.ticket
        u == s.tickets[k].user
        deleted == [j \in TicketIds(s) |->
                       IF s.tickets[j].user = u
                       THEN [s.tickets[j] EXCEPT !.alive = FALSE] ELSE s.tickets[j]]
    IN  IF outcome = "ok"
        THEN Leave([s EXCEPT !.tickets = [deleted EXCEPT ![k].verified = TRUE],
                             !.notices[u] = 0, !.verifications[u] = 1], t)
        ELSE IF outcome = "send_fails"
        THEN Leave([s EXCEPT !.tickets = deleted,
                             !.notices[u] = 0, !.verifications[u] = 0], t)
        ELSE Leave(s, t)

InvokeVerify(actors) ==
    \E k \in TicketIds(Cur), actor \in actors :
        /\ Cardinality(tasks) < MaxTasks
        /\ tickets[k].alive /\ tickets[k].attached /\ ~tickets[k].verify_disabled
        /\ Becomes(verify_payment(Cur, k, actor))

\* the lock is handed to a waiting Verify
VerifyResume ==
    \E t \in tasks :
        /\ t.kind = "verify" /\ t.pc = "wait" /\ t.turn = 1
        /\ Becomes(verify_locked(Cur, t))

VerifyCleanup ==
    \E t \in tasks, outcome \in {"ok", "send_fails", "delete_fails"} :
        /\ t.kind = "verify" /\ t.pc = "cleanup"
        /\ Becomes(verify_cleanup(Cur, t, outcome))

(* ------------------------------ on_ready ------------------------------- *)

\* a row of get_active_tickets as on_ready reads it: t.*, u.username
ActiveTicket(d, t) ==
    [transaction_id |-> t, user_id |-> d.transactions[t].user_id,
     username |-> d.users[d.transactions[t].user_id].username,
     ticket_message_id |-> d.transactions[t].ticket_message_id]

\* the ticket channel whose name matches the stored username (a channel is
\* named by its user), NoId when there is none
channel_for(s, username) ==
    IF \E u \in s.channels : NameOf(u) = username
    THEN CHOOSE u \in s.channels : NameOf(u) = username
    ELSE NoId

\* the members of the channel holding administrator or manage_messages
\* there, the bot left out
channel_admins(s) ==
    {m \in s.members : permissions_for(s, m).administrator
                           \/ permissions_for(s, m).manage_messages}

Elements(seq) == {seq[i] : i \in 1..Len(seq)}

\* after the loop: the references to the messages found missing are cleaned
\* up in one call, and on_ready returns
ready_finish(s, t) ==
    IF t.deleted_messages # <<>>
    THEN [s EXCEPT !.db = clean_deleted_message_refs(@, Elements(t.deleted_messages)).db]
    ELSE s

\* the loop over active_tickets from the ticket at t.idx on, up to the next
\* await: a ticket without a username (the exception is caught), without a
\* matching channel or without a message id is logged and passed over; the
\* first other ticket has its message fetched
RECURSIVE ready_scan(_, _)
ready_scan(s, t) ==
    IF t.idx > Len(t.active_tickets) THEN ready_finish(s, t)
    ELSE LET transaction == t.active_tickets[t.idx]
         IN  IF \/ transaction.username = NULL
                \/ channel_for(s, transaction.username) = NoId
                \/ transaction.ticket_message_id = NoId
             THEN ready_scan(s, [t EXCEPT !.idx = @ + 1])
             ELSE [s EXCEPT !.tasks = @ \cup {[t EXCEPT !.pc = "fetch"]}]

\* on_ready when the process has started: the handlers of the process
\* before are gone with their views and the pending images; the active
\* tickets are read once and the loop begins
on_ready(s) ==
    LET s0   == [s EXCEPT !.tasks = {},
                          !.images = [u \in UserIds |-> NULL],
                          !.tickets = [k \in TicketIds(s) |->
                                          [s.tickets[k] EXCEPT !.attached = FALSE]]]
        rows == get_active_tickets(s0.db)
    IN  ready_scan(s0, [Task EXCEPT !.kind = "ready", !.idx = 1,
                                    !.active_tickets =
                                        [i \in 1..Len(rows) |-> ActiveTicket(s0.db, rows[i])]])

\* a variant of ready_fetch that does not ask for the member: the control is
\* attached for a user who has left the guild
ready_fetch_without_member(s, t, outcome, first) ==
    LET transaction == t.active_tickets[t.idx]
        s1 == [s EXCEPT !.tasks = @ \ {t}]
        next == [t EXCEPT !.idx = @ + 1]
    IN  IF outcome = "returned"
        THEN IF first # NoId
             THEN Goes(s, t, [t EXCEPT !.pc = "edit", !.actor = first])
             ELSE ready_scan(s1, next)
        ELSE IF outcome = "not_found"
        THEN ready_scan(s1, [next EXCEPT !.deleted_messages =
                                 Append(@, transaction.ticket_message_id)])
        ELSE ready_scan(s1, next)

\* a variant of ready_fetch in which a missing message ends the pass
ready_fetch_abort_on_missing(s, t, outcome, first) ==
    LET transaction == t.active_tickets[t.idx]
        s1 == [s EXCEPT !.tasks = @ \ {t}]
        next == [t EXCEPT !.idx = @ + 1]
    IN  IF outcome = "returned"
        THEN IF transaction.user_id \in s.members /\ first # NoId
             THEN Goes(s, t, [t EXCEPT !.pc = "edit", !.actor = first])
             ELSE ready_scan(s1, next)
        ELSE IF outcome = "not_found"
        THEN ready_finish(s1, [t EXCEPT !.deleted_messages =
                                   Append(@, transaction.ticket_message_id)])
        ELSE ready_scan(s1, next)

\* channel.fetch_message returned or raised.  "returned": the member and the
\* admins of the channel are looked up, first being the first admin in the
\* order of channel.members (NoId when there is none), and with both found
\* the message is edited; "not_found": the message id is kept for the
\* cleanup; "error": any other exception, logged.  The loop goes on.
ready_fetch(s, t, outcome, first) ==
    LET transaction == t.active_tickets[t.idx]
        s1 == [s EXCEPT !.tasks = @ \ {t}]
        next == [t EXCEPT !.idx = @ + 1]
    IN  IF outcome = "returned"
        THEN IF transaction.user_id \in s.members /\ first # NoId
             THEN Goes(s, t, [t EXCEPT !.pc = "edit", !.actor = first])
             ELSE ready_scan(s1, next)
        ELSE IF outcome = "not_found"
        THEN ready_scan(s1, [next EXCEPT !.deleted_messages =
                                 Append(@, transaction.ticket_message_id)])
        ELSE ready_scan(s1, next)

\* message.edit(view=view) returned or raised.  "returned": the message
\* shows the buttons of a new PaymentView(user, channel, admin,
\* transaction_id), which bot.add_view registers; the exceptions as in
\* ready_fetch
reattach(s, t, outcome) ==
    LET transaction == t.active_tickets[t.idx]
        m == transaction.ticket_message_id
        next == [t EXCEPT !.idx = @ + 1, !.pc = "fetch", !.actor = NoId]
    IN  IF outcome = "returned"
        THEN Goes([s EXCEPT !.tickets[m] =
                      [NewTicket(transaction.user_id, t.actor, transaction.transaction_id)
                          EXCEPT !.issuer = s.tickets[m].issuer,
                                 !.verified = s.tickets[m].verified]],
                  t, [next EXCEPT !.restored_count = @ + 1])
        ELSE IF outcome = "not_found"
        THEN Goes(s, t, [next EXCEPT !.deleted_messages = Append(@, m)])
        ELSE Goes(s, t, next)

\* the step of the message edit and the loop up to the next await
ready_edit(s, t, outcome) ==
    LET s2 == reattach(s, t, outcome)
        t2 == CHOOSE x \in s2.tasks : x.kind = "ready"
    IN  ready_scan([s2 EXCEPT !.tasks = @ \ {t2}], t2)

\* the process starts while no pass is running
OnReady ==
    /\ ~\E t \in tasks : t.kind = "ready"
    /\ Becomes(on_ready(Cur))

ReadyFetch ==
    \E t \in tasks, outcome \in {"returned", "not_found", "error"},
       first \in Members \cup {NoId} :
        /\ t.kind = "ready" /\ t.pc = "fetch"
        /\ outcome = "returned" => tickets[t.active_tickets[t.idx].ticket_message_id].alive
        /\ outcome = "not_found" => ~tickets[t.active_tickets[t.idx].ticket_message_id].alive
        /\ IF channel_admins(Cur) = {} THEN first = NoId ELSE first \in channel_admins(Cur)
        /\ Becomes(ready_fetch(Cur, t, outcome, first))

ReadyEdit ==
    \E t \in tasks, outcome \in {"returned", "not_found", "error"} :
        /\ t.kind = "ready" /\ t.pc = "edit"
        /\ outcome = "returned" => tickets[t.active_tickets[t.idx].ticket_message_id].alive
        /\ outcome = "not_found" => ~tickets[t.active_tickets[t.idx].ticket_message_id].alive
        /\ Becomes(ready_edit(Cur, t, outcome))

\* a member leaves the guild
MemberLeaves(leavers) ==
    \E m \in leavers :
        /\ m \in members
        /\ Becomes([Cur EXCEPT !.members = @ \ {m}])

\* a ticket channel is deleted, and its messages with it
DeleteChannel ==
    \E u \in channels :
        Becomes([Cur EXCEPT !.channels = @ \ {u},
                            !.notices[u] = 0,
                            !.verifications[u] = 0,
                            !.tickets = [k \in TicketIds(Cur) |->
                                            IF tickets[k].user = u
                                            THEN [tickets[k] EXCEPT !.alive = FALSE]
                                            ELSE tickets[k]]])

\* a member of the channel deletes a ticket message
DeleteMessage ==
    \E k \in TicketIds(Cur) :
        /\ tickets[k].alive
        /\ Becomes([Cur EXCEPT !.tickets[k].alive = FALSE])

ChargePrices == {LUNCH_PRICE, <<"0">>}
ChargeTargets == {<<>>, <<1>>, <<2>>, <<1, 2>>}

Next ==
    \/ InvokeCharge(Members, ChargePrices, ChargeTargets)
    \/ ChargeChannel
    \/ ChargeCleanup
    \/ ChargePost
    \/ ChargeReport
    \/ UploadImage({"img1"})
    \/ ChangeAdministrators({3})
    \/ InvokeSubmit(Members)
    \/ SubmitResume
    \/ SubmitReject
    \/ SubmitWrite
    \/ SubmitNotify
    \/ InvokeVerify(Members)
    \/ VerifyResume
    \/ VerifyCleanup

Spec == Init /\ [][Next]_vars

\* the charge command next to the handlers that change what it reads (the
\* administrators, the users' transactions and the tracked ticket messages).
\* The awaits of the command complete: each Discord call it waits for returns
\* or raises, and the event loop then runs the command's next step.
ChargeNext ==
    \/ InvokeCharge(Members, ChargePrices, ChargeTargets)
    \/ ChargeChannel
    \/ ChargeCleanup
    \/ ChargePost
    \/ ChargeReport
    \/ ChangeAdministrators({3})
    \/ InvokeVerify(Members)
    \/ VerifyResume
    \/ VerifyCleanup

ChargeSpec ==
    /\ Init
    /\ [][ChargeNext]_vars
    /\ WF_vars(ChargeChannel)
    /\ WF_vars(ChargeCleanup)
    /\ WF_vars(ChargePost)
    /\ WF_vars(ChargeReport)

(***************************************************************************)
(* Claims about the price parser and the store.                            *)
(***************************************************************************)

\* C1 (counterexample): in every state the store operations reach, each
\* user's total_unpaid equals the sum of total_price over that user's
\* transactions with paid = FALSE.
C1_BalanceInvariant ==
    \A u \in UserIds : db.users[u].total_unpaid = get_unpaid_total(db, u)

\* C2 (counterexample): every transaction has paid = transaction_confirmed
\* in every state reached by charges, proof submissions and verifications.
C2_PaidEqualsConfirmed ==
    \A t \in TxIds(db) : db.transactions[t].paid = db.transactions[t].transaction_confirmed

\* C3 (counterexample): the parser returns the number parsed from the digit
\* and dot characters of the string when float() accepts them, and raises a
\* value error otherwise; it returns no value for an invalid string.
C3_ParserRejectsInvalid ==
    \A i \in 1..Len(parsed) :
        IF FloatAccepts(FilterNumeric(price_str))
        THEN parsed[i] = Returned(FloatValue(FilterNumeric(price_str)))
        ELSE parsed[i].raised

\* C4: a step that creates a transaction appends exactly one row, owned by
\* some user u, unpaid and unconfirmed, whose total_price is the parsed
\* lunch_price; u's total_unpaid grows by exactly that amount (from 0 when the
\* user row is new), every other user row and every earlier transaction stay
\* as they were.
C4_CreateAddsOneAndCharges ==
    [][Len(db'.transactions) # Len(db.transactions) =>
        LET n   == Len(db.transactions) + 1
            row == db'.transactions[n]
            u   == row.user_id
        IN  /\ Len(db'.transactions) = n
            /\ SubSeq(db'.transactions, 1, n - 1) = db.transactions
            /\ u \in UserIds
            /\ ~row.paid /\ ~row.transaction_confirmed
            /\ row.total_price = extract_numeric(row.lunch_price)
            /\ db'.users[u].present
            /\ db'.users[u].total_unpaid = db.users[u].total_unpaid + row.total_price
            /\ db'.users[u].username = db.users[u].username
            /\ \A v \in UserIds \ {u} : db'.users[v] = db.users[v]]_vars

\* C4 (witness): a transaction created for "55.000 VND" has total_price 55.0
\* and its owner, charged nothing else, owes exactly 55.0.
C4_Witness ==
    \E t \in TxIds(db) :
        /\ db.transactions[t].lunch_price = LUNCH_PRICE
        /\ db.transactions[t].total_price = 55 * Scale
        /\ Len(db.transactions) = 2
        /\ db.users[db.transactions[t].user_id].total_unpaid = 55 * Scale
        /\ \E v \in UserIds : v # db.transactions[t].user_id /\ db.users[v].total_unpaid > 0

AllConfirmed(d, u) ==
    /\ d.users[u].total_unpaid = 0
    /\ \A t \in TxIds(d) :
          d.transactions[t].user_id = u =>
              d.transactions[t].paid /\ d.transactions[t].transaction_confirmed

\* C5: from every reachable store state, confirm_all_user_transactions(u)
\* leaves u with total_unpaid 0 and all of u's transactions paid and
\* confirmed, does not raise, and a second call right after it leaves the
\* store exactly as the first call left it.
C5_ConfirmAllIdempotent ==
    \A u \in UserIds :
        LET first  == confirm_all_user_transactions(db, u)
            second == confirm_all_user_transactions(first.db, u)
        IN  /\ ~first.raised /\ ~second.raised
            /\ AllConfirmed(first.db, u)
            /\ AllConfirmed(second.db, u)
            /\ second.db = first.db

\* C5 (witness): a user with two transactions, one of them resubmitted after
\* payment, whose balance no longer matches: a state where the call has work
\* to do on both the rows and the balance.
C5_Witness ==
    \E u \in UserIds :
        /\ Cardinality({t \in TxIds(db) : db.transactions[t].user_id = u}) = 2
        /\ Cardinality(Unpaid(db, u)) = 1
        /\ db.users[u].total_unpaid # get_unpaid_total(db, u)
        /\ db.users[u].total_unpaid # 0

(***************************************************************************)
(* Claims about the two buttons of a PaymentView.                          *)
(***************************************************************************)
Elevated(actor) ==
    permissions_for(Cur, actor).administrator \/ permissions_for(Cur, actor).manage_messages

\* what one confirmation of all of u's unpaid transactions does to the store
VerifyEffect(before, after, u) ==
    /\ Len(after.transactions) = Len(before.transactions)
    /\ \A t \in TxIds(before) :
          LET b == before.transactions[t]
              a == after.transactions[t]
          IN  /\ b.user_id = u => a.paid /\ a.transaction_confirmed
              /\ a = IF b.user_id = u /\ ~b.paid
                     THEN [b EXCEPT !.paid = TRUE, !.transaction_confirmed = TRUE]
                     ELSE b
    /\ after.users[u] = [before.users[u] EXCEPT !.total_unpaid = 0]
    /\ \A v \in UserIds \ {u} : after.users[v] = before.users[v]

\* C6: whenever Verify writes for an actor with administrator or
\* manage-messages permission (at the press when the view's lock is free, or
\* when the lock is handed to a waiting Verify), every transaction of the
\* bound user u that was unpaid becomes paid and confirmed, not only the
\* bound one, u's total_unpaid becomes 0, and every other user's row and
\* transactions stay as they were.
C6_VerifyConfirmsAllOfUser ==
    /\ \A k \in TicketIds(Cur), actor \in Members :
          Elevated(actor) /\ Queue(Cur, k) = {} =>
              VerifyEffect(db, verify_payment(Cur, k, actor).db, tickets[k].user)
    /\ \A t \in tasks :
          t.kind = "verify" /\ t.pc = "wait" /\ t.turn = 1 =>
              VerifyEffect(db, verify_locked(Cur, t).db, tickets[t.ticket].user)

\* C6 (witness): a Verify has written and is at its cleanup; the bound user
\* has two transactions, both paid and confirmed, one of them never
\* submitted (no image), and owes 0.
C6_Witness ==
    \E t \in tasks :
        /\ t.kind = "verify" /\ t.pc = "cleanup"
        /\ LET u    == tickets[t.ticket].user
               mine == {x \in TxIds(db) : db.transactions[x].user_id = u}
           IN  /\ Cardinality(mine) = 2
               /\ \A x \in mine : db.transactions[x].paid
                                   /\ db.transactions[x].transaction_confirmed
               /\ \E x \in mine : /\ x # tickets[t.ticket].transaction_id
                                   /\ db.transactions[x].transaction_image = NULL
               /\ db.users[u].total_unpaid = 0

\* C7: a Verify pressed by an actor with neither administrator nor
\* manage-messages permission leaves the whole state as it is (store,
\* channel messages, views, pending images, invocations in flight), on every
\* view, also when the actor is the admin bound to the view.
C7_UnauthorizedVerifyDoesNothing ==
    \A k \in TicketIds(Cur), actor \in Members :
        ~Elevated(actor) => verify_payment(Cur, k, actor) = Cur

\* C7 (witness): a live view whose bound admin has lost the administrator
\* permission, on a user who owes an unpaid transaction.
C7_Witness ==
    \E k \in TicketIds(Cur) :
        /\ tickets[k].alive
        /\ ~Elevated(tickets[k].admin)
        /\ ~db.transactions[tickets[k].transaction_id].paid
        /\ db.users[tickets[k].user].total_unpaid > 0
        /\ Queue(Cur, k) = {}

\* C8: a Submit Proof pressed by anyone but the user bound to the view
\* leaves the whole state as it is: the bound transaction (image, date,
\* paid), the pending images, the view and everything else.
C8_ForeignSubmitDoesNothing ==
    \A k \in TicketIds(Cur), actor \in Members :
        actor # tickets[k].user => submit_payment(Cur, k, actor) = Cur

\* C8 (witness): a live view with its submit button enabled, the bound user
\* has a pending image and an unpaid transaction without proof: a press by
\* the bound user would go through.
C8_Witness ==
    \E k \in TicketIds(Cur) :
        /\ tickets[k].alive /\ ~tickets[k].submit_disabled
        /\ images[tickets[k].user] # NULL
        /\ db.transactions[tickets[k].transaction_id].transaction_image = NULL
        /\ ~db.transactions[tickets[k].transaction_id].paid
        /\ Queue(Cur, k) = {}

\* C9: a Submit Proof by the bound user with no pending image stored is
\* rejected: once it has the lock the invocation only answers with the retry
\* prompt, and neither taking that path nor returning from it changes the
\* store, the notices, the view, the messages or the pending images.
C9_SubmitWithoutImageRejected ==
    /\ \A k \in TicketIds(Cur) :
          images[tickets[k].user] = NULL =>
              LET s1 == submit_payment(Cur, k, tickets[k].user)
              IN  /\ [s1 EXCEPT !.tasks = tasks] = Cur
                  /\ \A t \in s1.tasks \ tasks :
                        t.pc = IF Queue(Cur, k) = {} THEN "reject" ELSE "wait"
    /\ \A t \in tasks :
          /\ t.kind = "submit" /\ t.pc = "wait" /\ t.turn = 1
          /\ images[tickets[t.ticket].user] = NULL
          => submit_locked(Cur, t).pc = "reject"
    /\ \A t \in tasks :
          t.pc = "reject" => [Leave(Cur, t) EXCEPT !.tasks = tasks] = Cur

\* C9 (witness): a Submit Proof is being rejected; its transaction has no
\* image, no notice is posted and the submit button is enabled.
C9_Witness ==
    \E t \in tasks :
        /\ t.kind = "submit" /\ t.pc = "reject"
        /\ db.transactions[tickets[t.ticket].transaction_id].transaction_image = NULL
        /\ notices[tickets[t.ticket].user] = 0
        /\ ~tickets[t.ticket].submit_disabled
        /\ tickets[t.ticket].alive

\* C10 (counterexample): once a Submit Proof and then a Verify have
\* succeeded on a view, the bound transaction is paid and confirmed, the
\* view is disabled (both of its buttons), and no invocation on that view is
\* still to run.
C10_ClosedAfterHandshake ==
    \A k \in TicketIds(Cur) :
        tickets[k].shown_disabled /\ tickets[k].verified =>
            /\ db.transactions[tickets[k].transaction_id].paid
            /\ db.transactions[tickets[k].transaction_id].transaction_confirmed
            /\ tickets[k].submit_disabled /\ tickets[k].verify_disabled
            /\ Queue(Cur, k) = {}

(***************************************************************************)
(* Claims about the order and the exclusion of the buttons' steps.         *)
(***************************************************************************)
\* C11 (counterexample): once a Submit Proof has succeeded on a view (its
\* message shows the submit button disabled), no Submit Proof invocation on
\* that view has called update_transaction again.
C11_SubmitOnlyWhileAwaitingProof ==
    \A t \in tasks :
        t.kind = "submit" /\ t.pc = "notify" => ~tickets[t.ticket].shown_disabled

\* an invocation between the acquisition and the release of its view's lock
InCritical(t) == t.ticket # NoId /\ t.pc \in {"reject", "write", "notify", "cleanup"}

\* C12: on one view at most one invocation (Submit Proof or Verify) is
\* between acquiring and releasing the view's lock, and it is the one at the
\* head of the lock's queue; every other invocation on that view waits.
C12_OneInCriticalSectionPerView ==
    \A k \in TicketIds(Cur) :
        LET inside == {t \in tasks : t.ticket = k /\ InCritical(t)}
        IN  /\ Cardinality(inside) <= 1
            /\ \A t \in inside : t.turn = 1
            /\ \A t \in tasks : t.ticket = k /\ t.turn > 1 => t.pc = "wait"

\* C12 (witness): a Submit Proof and a Verify are inside their critical
\* sections at the same time, on the views of two different users.
C12_Witness ==
    \E t1 \in tasks, t2 \in tasks :
        /\ t1.kind = "submit" /\ t1.pc = "notify"
        /\ t2.kind = "verify" /\ t2.pc = "cleanup"
        /\ tickets[t1.ticket].user # tickets[t2.ticket].user

\* the messages of the channels and the views on them
Chat(s) == <<s.channels, s.tickets, s.notices, s.verifications>>

\* C13: in Submit Proof and in Verify the store write comes first and whole.
\* The segments up to and including the write (update_transaction, resp.
\* confirm_all_user_transactions) delete, post and edit no channel message
\* and disable no button; the write of Submit Proof is the whole
\* update_transaction; the segments that touch the messages and the buttons
\* write nothing to the store, whether they succeed or fail.
C13_StoreWriteBeforeUI ==
    /\ \A k \in TicketIds(Cur), actor \in Members :
          /\ Chat(submit_payment(Cur, k, actor)) = Chat(Cur)
          /\ submit_payment(Cur, k, actor).db = db
          /\ Chat(verify_payment(Cur, k, actor)) = Chat(Cur)
    /\ \A t \in tasks :
          /\ t.kind = "submit" /\ t.pc = "write" =>
                LET s1 == submit_write(Cur, t)
                    tx == tickets[t.ticket].transaction_id
                IN  /\ Chat(s1) = Chat(Cur)
                    /\ s1.db = update_transaction(db, tx, t.image, clock + 1).db
                    /\ s1.db.transactions[tx].transaction_image = t.image
                    /\ ~s1.db.transactions[tx].paid
          /\ t.kind = "submit" /\ t.pc = "notify" =>
                \A o \in {"ok", "edit_fails", "send_fails"} :
                    submit_notify(Cur, t, o).db = db
          /\ t.kind = "verify" /\ t.pc = "wait" /\ t.turn = 1 =>
                Chat(verify_locked(Cur, t)) = Chat(Cur)
          /\ t.kind = "verify" /\ t.pc = "cleanup" =>
                \A o \in {"ok", "send_fails", "delete_fails"} :
                    verify_cleanup(Cur, t, o).db = db

\* C13 (witness): a Submit Proof whose edit of the message failed (the view
\* has its button disabled, the message does not show it) has left the
\* store with the proof written, and a Verify is at its cleanup with the
\* user's transactions confirmed and the ticket message still there.
C13_Witness ==
    \E k \in TicketIds(Cur) :
        /\ tickets[k].submit_disabled /\ ~tickets[k].shown_disabled
        /\ db.transactions[tickets[k].transaction_id].transaction_image # NULL
        /\ \E t \in tasks :
              /\ t.kind = "verify" /\ t.pc = "cleanup" /\ t.ticket = k
              /\ tickets[k].alive
              /\ db.transactions[tickets[k].transaction_id].paid

(***************************************************************************)
(* Claims about the charge command.                                        *)
(***************************************************************************)
\* price strings handed to the command: the default price, zero in two
\* spellings, strings without digits, two decimal points, a digit character
\* float() rejects
CommandPrices ==
    {LUNCH_PRICE, <<"0">>, <<"0", ".", "0">>, <<>>, <<"V">>, <<".">>,
     <<"5", ".", ".">>, <<"sup2">>}

\* those of them the parser does not turn into a positive amount
NotPositive == {price \in CommandPrices : extract_numeric(price) <= 0}

\* C14: a charge command issued by a member who is no administrator, or
\* naming no user, or with a price string the parser does not turn into a
\* positive amount, leaves the whole state as it is: no user row, no
\* transaction, no balance, no channel, no ticket message and no invocation
\* left in flight.
C14_InvalidChargeWritesNothing ==
    LET cur == Cur
    IN  \A author \in Members, price \in CommandPrices, users \in ChargeTargets :
            (~guild_administrator(cur, author) \/ users = <<>> \/ price \in NotPositive)
                => lunch(cur, author, price, users) = cur

\* C14 (witness): the member who charged user 1 before is no administrator
\* any more and a further charge could be issued: the store has room and no
\* invocation is in flight.
C14_Witness ==
    /\ administrators = {}
    /\ tasks = {}
    /\ Len(db.transactions) = 1
    /\ db.users[1].total_unpaid = 55 * Scale
    /\ \E k \in TicketIds(Cur) : tickets[k].alive /\ tickets[k].admin = 3

\* the outcomes of a step of the charge in which the current user's turn fails
ChargeFailures(t) ==
    IF t.pc = "channel" THEN {charge_channel(Cur, t, FALSE)}
    ELSE IF t.pc = "cleanup" THEN {charge_cleanup(Cur, t, "error")}
    ELSE IF t.pc = "post" THEN {charge_post(Cur, t, FALSE)}
    ELSE {}

\* the command t after the failure of its current user, in the state s1
AfterFailure(s1, t, x) ==
    /\ x \in s1.tasks
    /\ x.kind = "charge" /\ x.actor = t.actor /\ x.price = t.price /\ x.targets = t.targets
    /\ x.idx = t.idx + 1
    /\ x.failed = Append(t.failed, t.targets[t.idx])
    /\ x.processed = t.processed

\* C15: when the channel resolution, the cleanup or the posting fails for a
\* user of a charge, the user joins the failed list while the transaction
\* created for the user stays in the store and the user's balance stays as
\* charged; the command goes on: the next user, if there is one, is charged
\* in the same step, else the lists are reported.  Every user in a failed
\* list has a transaction of the command's price.
C15_FailureIsAfterCommit ==
    \A t \in tasks :
        t.kind = "charge" =>
            /\ \A i \in 1..Len(t.failed) :
                  \E x \in TxIds(db) : /\ db.transactions[x].user_id = t.failed[i]
                                        /\ db.transactions[x].lunch_price = t.price
            /\ \A s1 \in ChargeFailures(t) :
                  LET user == t.targets[t.idx]
                      n    == Len(db.transactions)
                  IN  /\ SubSeq(s1.db.transactions, 1, n) = db.transactions
                      /\ db.transactions[t.tx].user_id = user
                      /\ s1.db.users[user] = db.users[user]
                      /\ \E x \in s1.tasks :
                            /\ AfterFailure(s1, t, x)
                            /\ IF t.idx < Len(t.targets)
                               THEN /\ x.pc = "channel"
                                    /\ x.tx = n + 1
                                    /\ Len(s1.db.transactions) = n + 1
                                    /\ s1.db.transactions[n + 1].user_id = t.targets[t.idx + 1]
                                    /\ s1.db.users[t.targets[t.idx + 1]].total_unpaid =
                                           db.users[t.targets[t.idx + 1]].total_unpaid
                                               + extract_numeric(t.price)
                               ELSE x.pc = "report" /\ s1.db = db

\* C15 (witness): a charge of two users reports the first as failed and the
\* second as processed; both have their transaction and owe the price.
C15_Witness ==
    \E t \in tasks :
        /\ t.kind = "charge" /\ t.pc = "report"
        /\ t.targets = <<1, 2>>
        /\ t.failed = <<1>> /\ t.processed = <<2>>
        /\ \A u \in UserIds :
              /\ db.users[u].total_unpaid = 55 * Scale
              /\ \E x \in TxIds(db) : db.transactions[x].user_id = u /\ ~db.transactions[x].paid

\* the users of a charge whose turn is over
Attempted(t) == IF t.pc = "report" THEN t.targets ELSE SubSeq(t.targets, 1, t.idx - 1)

\* each user whose turn is over is in one of the two lists, once per turn
ListsPartitionAttempted ==
    \A t \in tasks :
        t.kind = "charge" =>
            /\ t.pc # "report" => t.idx \in 1..Len(t.targets)
            /\ Len(t.processed) + Len(t.failed) = Len(Attempted(t))
            /\ \A u \in UserIds :
                  Count(t.processed, {u}) + Count(t.failed, {u}) = Count(Attempted(t), {u})

\* the turn of the charge that created transaction x is under way
Turn(x) == \E t \in tasks : t.kind = "charge" /\ t.pc # "report" /\ t.tx = x

Reporting == \E t \in tasks : t.kind = "charge" /\ t.pc = "report"

\* C16: a charge that passed validation attempts its users in order, each
\* once: at every moment the users whose turn is over are exactly those in
\* the processed and failed lists together, so at the report the two lists
\* hold as many entries as there are targets; every turn ends, whatever
\* happened to the turns before it, and the report is sent and the command
\* returns.
C16_ChargeAttemptsEveryUserOnce ==
    /\ []ListsPartitionAttempted
    /\ \A x \in 1..MaxTx : Turn(x) ~> ~Turn(x)
    /\ Reporting ~> ~Reporting

\* C16 (witness): the report of a charge of two users after the first
\* user's turn failed: one entry in each list.
C16_Witness ==
    \E t \in tasks :
        /\ t.kind = "charge" /\ t.pc = "report"
        /\ Len(t.targets) = 2
        /\ Len(t.failed) = 1 /\ Len(t.processed) = 1
        /\ t.failed[1] = t.targets[1]

\* C17 (counterexample): every step that ends the cleanup of the old ticket
\* messages of a user goes on to the posting of the new summary for the
\* same transaction, whatever the fetches and deletes raised.
C17_CleanupNeverAborts ==
    [][\A t \in tasks :
          (t.kind = "charge" /\ t.pc = "cleanup" /\ t \notin tasks') =>
              \E x \in tasks' : x.kind = "charge" /\ x.pc = "post" /\ x.tx = t.tx]_vars

\* C18 (counterexample): when a charge is about to post the summary of a
\* user, the unpaid total and the unpaid count it renders are those the
\* store holds for the user at that moment.
C18_SummaryShowsCurrentTotals ==
    \A t \in tasks :
        t.kind = "charge" /\ t.pc = "post" =>
            /\ t.total_unpaid = get_unpaid_total(db, t.targets[t.idx])
            /\ t.unpaid_count = get_unpaid_count(db, t.targets[t.idx])

\* uploads of two different images next to Submit Proof, on the tickets a
\* charge by the administrator posts
ImageNext ==
    \/ InvokeCharge({3}, {LUNCH_PRICE}, {<<1>>, <<2>>})
    \/ ChargeChannel
    \/ ChargeCleanup
    \/ ChargePost
    \/ ChargeReport
    \/ UploadImage({"img1", "img2"})
    \/ InvokeSubmit(UserIds)
    \/ SubmitResume
    \/ SubmitReject
    \/ SubmitWrite
    \/ SubmitNotify

ImageSpec == Init /\ [][ImageNext]_vars

\* the charge command and Verify with the start of the process and its
\* reconciliation pass
ReadyNext ==
    \/ InvokeCharge(Members, {LUNCH_PRICE}, ChargeTargets)
    \/ ChargeChannel
    \/ ChargeCleanup
    \/ ChargePost
    \/ ChargeReport
    \/ ChangeAdministrators({3})
    \/ MemberLeaves({1, 4})
    \/ DeleteMessage
    \/ DeleteChannel
    \/ InvokeVerify(Members)
    \/ VerifyResume
    \/ VerifyCleanup
    \/ OnReady
    \/ ReadyFetch
    \/ ReadyEdit

ReadySpec == Init /\ [][ReadyNext]_vars

\* all the flows of the bot together, for one user: the charge, the uploads,
\* Submit Proof, Verify, and the start of the process with its
\* reconciliation pass
FlowNext ==
    \/ InvokeCharge({3}, {LUNCH_PRICE}, {<<1>>})
    \/ ChargeChannel
    \/ ChargeCleanup
    \/ ChargePost
    \/ ChargeReport
    \/ UploadImage({"img1"})
    \/ InvokeSubmit({1})
    \/ SubmitResume
    \/ SubmitReject
    \/ SubmitWrite
    \/ SubmitNotify
    \/ InvokeVerify({3})
    \/ VerifyResume
    \/ VerifyCleanup
    \/ OnReady
    \/ ReadyFetch
    \/ ReadyEdit

FlowSpec == Init /\ [][FlowNext]_vars

(***************************************************************************)
(* Claims about with_connection.                                           *)
(***************************************************************************)
\* C19 (counterexample): a call whose statement raises a connection error is
\* attempted a second time on a fresh connection, so every such call makes
\* exactly two attempts before the caller sees anything.
C19_RetriesOnceOnConnectionLoss ==
    \A c \in Calls :
        \A fault \in Faults(c) :
            fault.error = "connection" =>
                with_connection(db, c, fault, clock + 1).attempts = 2

\* what a committed call may do to the rows: a row inserted comes with its
\* price added to the owner's balance, a row newly confirmed comes with its
\* price taken off the owner's balance or with the balance reset to 0
Matched(before, after) ==
    /\ \A t \in TxIds(after) \ TxIds(before) :
          LET u == after.transactions[t].user_id
          IN  after.users[u].total_unpaid =
                  before.users[u].total_unpaid + after.transactions[t].total_price
    /\ \A t \in TxIds(before) :
          (after.transactions[t].transaction_confirmed
              /\ ~before.transactions[t].transaction_confirmed) =>
              LET u == before.transactions[t].user_id
              IN  \/ after.users[u].total_unpaid = 0
                  \/ after.users[u].total_unpaid =
                         before.users[u].total_unpaid - before.transactions[t].total_price

\* C20: for every mutating operation and every statement of it that may
\* raise (a connection error or another one): the call raises and leaves
\* the committed rows as they were before the call; a call that does not
\* raise commits the whole operation, and what it commits never holds a row
\* inserted or confirmed without the balance change that goes with it.
C20_OperationsAreAtomic ==
    \A c \in Calls :
        \A fault \in Faults(c) :
            LET r == with_connection(db, c, fault, clock + 1)
            IN  /\ fault.at # 0 => r.raised
                /\ r.raised => r.db = db
                /\ ~r.raised => r.db = Whole(db, c, clock + 1).db
                /\ fault.at = 0 => r.raised = Whole(db, c, clock + 1).raised
                /\ Matched(db, r.db)

\* C20 (witness): user 1 has a paid, confirmed transaction and an unpaid
\* one, and user 2 has no row: confirm_transaction and
\* confirm_all_user_transactions have rows to change in their first
\* statement, and create_transaction for user 2 raises on its own.
C20_Witness ==
    /\ Len(db.transactions) = 2
    /\ \A t \in TxIds(db) : db.transactions[t].user_id = 1
    /\ \E t \in TxIds(db) : db.transactions[t].paid /\ db.transactions[t].transaction_confirmed
    /\ \E t \in TxIds(db) : ~db.transactions[t].paid
    /\ ~db.users[2].present

(***************************************************************************)
(* Claims about single operations of the store.                            *)
(***************************************************************************)
\* C21 (counterexample): confirm_transaction on a transaction that is
\* already paid changes nothing: the owner's total_unpaid and every
\* transaction row stay as they are, so confirming twice equals confirming
\* once.
C21_ConfirmPaidIsNoOp ==
    \A t \in TxIds(db) :
        /\ db.transactions[t].paid => confirm_transaction(db, t).db = db
        /\ confirm_transaction(confirm_transaction(db, t).db, t).db
               = confirm_transaction(db, t).db

\* C22: clean_deleted_message_refs(M) sets ticket_message_id to null on the
\* transactions that are unpaid and reference an id in M, and on no other:
\* a paid transaction keeps its reference, a transaction referencing an id
\* outside M keeps it, every other column and every user row is unchanged,
\* and the call does not raise.
C22_CleanClearsUnpaidRefsOnly ==
    \A M \in SUBSET MessageIds :
        LET r == clean_deleted_message_refs(db, M)
            after == r.db
        IN  /\ ~r.raised
            /\ after.users = db.users
            /\ Len(after.transactions) = Len(db.transactions)
            /\ \A t \in TxIds(db) :
                  LET old == db.transactions[t]
                      new == after.transactions[t]
                  IN  /\ [new EXCEPT !.ticket_message_id = NoId]
                             = [old EXCEPT !.ticket_message_id = NoId]
                      /\ new.ticket_message_id =
                             IF ~old.paid /\ old.ticket_message_id \in M
                             THEN NoId
                             ELSE old.ticket_message_id

\* C22 (witness): a paid transaction and an unpaid one both reference
\* message 1, so clean_deleted_message_refs({1}) has a row to clear and a
\* paid row to leave alone, and clean_deleted_message_refs({2}) a reference
\* outside its list.
C22_Witness ==
    /\ \E t \in TxIds(db) : db.transactions[t].paid /\ db.transactions[t].ticket_message_id = 1
    /\ \E t \in TxIds(db) : ~db.transactions[t].paid /\ db.transactions[t].ticket_message_id = 1
    /\ clean_deleted_message_refs(db, {1}).db # db
    /\ clean_deleted_message_refs(db, {2}).db = db

\* the transactions of a user that are unpaid and carry a message id
LiveUnpaid(d, u) ==
    {t \in Unpaid(d, u) : d.transactions[t].ticket_message_id # NoId}

\* C23: get_active_tickets returns one row for each user having an unpaid
\* transaction with a non-null ticket_message_id, that row is one of those
\* transactions and none of them has a later transaction_date, and it
\* returns no row for any other user.
C23_ActiveTicketsLatestPerUser ==
    LET rows == get_active_tickets(db)
    IN  /\ \A i \in 1..Len(rows) : rows[i] \in TxIds(db)
        /\ \A u \in UserIds :
              LET mine == {i \in 1..Len(rows) : db.transactions[rows[i]].user_id = u}
              IN  IF LiveUnpaid(db, u) = {} THEN mine = {}
                  ELSE /\ Cardinality(mine) = 1
                       /\ \A i \in mine :
                             /\ rows[i] \in LiveUnpaid(db, u)
                             /\ \A t \in LiveUnpaid(db, u) :
                                   db.transactions[t].transaction_date
                                       <= db.transactions[rows[i]].transaction_date

\* C23 (witness): user 1 has two unpaid transactions with a message id and
\* the one inserted first carries the later date (its image was updated
\* after the second insert), so the row returned is not the last inserted.
C23_Witness ==
    /\ Len(db.transactions) = 2
    /\ LiveUnpaid(db, 1) = {1, 2}
    /\ db.transactions[1].transaction_date > db.transactions[2].transaction_date
    /\ get_active_tickets(db) = <<1>>

(***************************************************************************)
(* Claims about the reconciliation pass of on_ready.                       *)
(***************************************************************************)
\* an active ticket the pass has to await Discord for
NeedsFetch(s, transaction) ==
    /\ transaction.username # NULL
    /\ channel_for(s, transaction.username) # NoId
    /\ transaction.ticket_message_id # NoId

\* s2 is what the ticket at t.idx leaves behind when the pass went on with
\* the list deleted of missing messages: the pass waits at the next ticket
\* that needs a fetch, or, with no such ticket left, it has ended and has
\* called clean_deleted_message_refs with that list, unless the list is empty
PassGoesOn(s, s2, t, deleted) ==
    LET rest == {i \in (t.idx + 1)..Len(t.active_tickets) :
                    NeedsFetch(s, t.active_tickets[i])}
    IN  IF rest = {}
        THEN /\ ~\E x \in s2.tasks : x.kind = "ready"
             /\ s2.db = IF deleted = <<>> THEN s.db
                        ELSE clean_deleted_message_refs(s.db, Elements(deleted)).db
        ELSE /\ s2.db = s.db
             /\ \E x \in s2.tasks :
                   /\ x.kind = "ready" /\ x.pc = "fetch"
                   /\ x.active_tickets = t.active_tickets
                   /\ x.idx \in rest /\ \A i \in rest : x.idx <= i
                   /\ x.deleted_messages = deleted

\* C24: whatever happens to an active ticket of the pass (its message is
\* missing, at the fetch or at the edit, or another error is raised, or no
\* member or admin is found), the pass goes on to the remaining tickets; a
\* message id enters the cleanup list when and only when its message was
\* found missing, the list holds only messages that are gone, and at the end
\* clean_deleted_message_refs is called with that list, and is not called
\* when the list is empty.
C24_PassSurvivesEveryTicket ==
    \A t \in tasks :
        t.kind = "ready" =>
            LET m == t.active_tickets[t.idx].ticket_message_id
                missing == Append(t.deleted_messages, m)
            IN  /\ \A i \in 1..Len(t.deleted_messages) :
                      /\ ~tickets[t.deleted_messages[i]].alive
                      /\ \E j \in 1..(t.idx - 1) :
                            t.active_tickets[j].ticket_message_id = t.deleted_messages[i]
                /\ t.pc = "fetch" =>
                      \A first \in channel_admins(Cur) \cup {NoId} :
                          /\ PassGoesOn(Cur, ready_fetch(Cur, t, "not_found", first),
                                        t, missing)
                          /\ PassGoesOn(Cur, ready_fetch(Cur, t, "error", first),
                                        t, t.deleted_messages)
                          /\ LET s2 == ready_fetch(Cur, t, "returned", first)
                             IN  \/ PassGoesOn(Cur, s2, t, t.deleted_messages)
                                 \/ s2.tasks = (tasks \ {t})
                                        \cup {[t EXCEPT !.pc = "edit", !.actor = first]}
                /\ t.pc = "edit" =>
                      /\ PassGoesOn(Cur, ready_edit(Cur, t, "not_found"), t, missing)
                      /\ PassGoesOn(Cur, ready_edit(Cur, t, "error"), t, t.deleted_messages)
                      /\ PassGoesOn([Cur EXCEPT !.tickets =
                                        ready_edit(Cur, t, "returned").tickets],
                                    ready_edit(Cur, t, "returned"), t, t.deleted_messages)

\* C24 (witness): the pass has found the message of its first active ticket
\* missing and waits for the fetch of its second one.
C24_Witness ==
    \E t \in tasks :
        /\ t.kind = "ready" /\ t.pc = "fetch" /\ t.idx = 2
        /\ Len(t.active_tickets) = 2
        /\ t.deleted_messages = <<t.active_tickets[1].ticket_message_id>>

\* C25 (counterexample): when the pass, having fetched the message of an
\* active ticket, goes on to attach a control, the admin of the control is
\* the member who issued the charge if that member is among the admins of
\* the channel, whichever admin comes first in the channel's member list.
C25_ReattachPrefersIssuer ==
    \A t \in tasks :
        (t.kind = "ready" /\ t.pc = "fetch") =>
            LET m == t.active_tickets[t.idx].ticket_message_id
            IN  \A first \in channel_admins(Cur) :
                    \A x \in ready_fetch(Cur, t, "returned", first).tasks :
                        (/\ tickets[m].alive
                         /\ x.kind = "ready" /\ x.pc = "edit" /\ x.idx = t.idx
                         /\ tickets[m].issuer \in channel_admins(Cur))
                            => x.actor = tickets[m].issuer

(***************************************************************************)
(* Claims about the schema.                                                *)
(***************************************************************************)
\* C26 (counterexample): create_tables succeeds on whatever the database
\* holds at the start of the process, an empty database included, and a
\* second run after it succeeds and changes nothing (the rows are never
\* touched by it).
C26_CreateTablesSucceedsAndIsIdempotent ==
    LET first == create_tables(schema)
    IN  /\ ~first.raised
        /\ first.schema = Objects
        /\ create_tables(first.schema) = first

(***************************************************************************)
(* Claims about the pending images.                                        *)
(***************************************************************************)
\* C27 (counterexample): while a Submit Proof is between reading the pending
\* image and clearing the slot, the image it persists is the one the user
\* uploaded last: a pending image in the user's slot is the image the
\* handler holds, so the slot it empties holds nothing that was not
\* persisted.
C27_SubmitPersistsLatestUpload ==
    \A t \in tasks :
        (/\ t.kind = "submit" /\ t.pc \in {"write", "notify"}
         /\ images[tickets[t.ticket].user] # NULL)
            => images[tickets[t.ticket].user] = t.image

(***************************************************************************)
(* Claims about add_or_get_user.                                           *)
(***************************************************************************)
\* C28: add_or_get_user(u, name) does not raise and changes no transaction
\* and no other user's row; afterwards u's row exists, with total_unpaid 0
\* if it was absent and with its total_unpaid unchanged if it existed; its
\* username is the supplied one when one is supplied, and without one an
\* existing row is unchanged (a new row has no username).
C28_UpsertUserKeepsBalances ==
    \A u \in UserIds, name \in {NULL, "ann", "bob"} :
        LET r == add_or_get_user(db, u, name)
            old == db.users[u]
            new == r.db.users[u]
        IN  /\ ~r.raised
            /\ r.db.transactions = db.transactions
            /\ \A v \in UserIds \ {u} : r.db.users[v] = db.users[v]
            /\ new.present
            /\ new.total_unpaid = IF old.present THEN old.total_unpaid ELSE 0
            /\ new.username = IF name # NULL THEN name
                              ELSE IF old.present THEN old.username ELSE NULL

\* C28 (witness): user 1 exists with the username "ann" and an unpaid
\* balance, user 2 does not exist: a call for user 1 with another username,
\* a call for user 1 without one and a call creating user 2 all have their
\* case.
C28_Witness ==
    /\ db.users[1].present /\ db.users[1].username = "ann"
    /\ db.users[1].total_unpaid > 0
    /\ Len(db.transactions) > 0
    /\ ~db.users[2].present
    /\ add_or_get_user(db, 1, "bob").db.users[1].username = "bob"

(***************************************************************************)
(* Claims about the order of the steps of a charge.                        *)
(***************************************************************************)
\* the user whose turn a charge is at
TurnUser(t) == t.targets[t.idx]

\* C29: the steps of one user's turn of a charge come in this order: upsert
\* and insert with the balance increment, committed before anything else
\* (the turn of the next user begins with them and touches neither channels
\* nor messages); then the channel; then the deletion of the old messages;
\* then the post; then the message id.  While a turn is between its insert
\* and its post, the user exists, the transaction is the user's, it carries
\* no message id and no message is bound to it, and from the cleanup on the
\* channel exists.  Neither the channel step nor the cleanup step writes to
\* the store or posts a message.  A successful post appends one message
\* bound to the user and the transaction, and the transaction then carries
\* the id of that message.
C29_ChargeStepsInOrder ==
    \A t \in tasks :
        (t.kind = "charge" /\ t.pc \in {"channel", "cleanup", "post"}) =>
            LET u == TurnUser(t)
                id == Len(tickets) + 1
            IN  /\ db.users[u].present
                /\ t.tx \in TxIds(db)
                /\ db.transactions[t.tx].user_id = u
                /\ db.transactions[t.tx].ticket_message_id = NoId
                /\ \A k \in TicketIds(Cur) : tickets[k].transaction_id # t.tx
                /\ t.pc = "channel" => t.old_messages = {}
                /\ t.pc \in {"cleanup", "post"} => u \in channels
                /\ t.pc = "channel" =>
                      LET s2 == charge_channel(Cur, t, TRUE)
                      IN  /\ s2.db = db /\ s2.tickets = tickets
                          /\ u \in s2.channels
                          /\ \E x \in s2.tasks : x.pc = "cleanup" /\ x.tx = t.tx
                /\ t.pc = "cleanup" =>
                      \A outcome \in {"deleted", "swallowed"} :
                          LET s2 == charge_cleanup(Cur, t, outcome)
                          IN  /\ s2.db = db /\ Len(s2.tickets) = Len(tickets)
                              /\ \E x \in s2.tasks : x.pc = "post" /\ x.tx = t.tx
                /\ t.pc = "post" =>
                      LET s2 == charge_post(Cur, t, TRUE)
                      IN  /\ Len(s2.tickets) = id
                          /\ s2.tickets[id].user = u
                          /\ s2.tickets[id].transaction_id = t.tx
                          /\ s2.tickets[id].alive
                          /\ s2.db.transactions[t.tx].ticket_message_id = id
                          /\ \E x \in s2.tasks :
                                x.kind = "charge" /\ x.processed = Append(t.processed, u)
                /\ t.idx < Len(t.targets) =>
                      LET v == t.targets[t.idx + 1]
                          s2 == begin_user([Cur EXCEPT !.tasks = @ \ {t}],
                                           [t EXCEPT !.idx = @ + 1])
                          new == Len(db.transactions) + 1
                      IN  /\ s2.db.users[v].present
                          /\ Len(s2.db.transactions) = new
                          /\ s2.db.transactions[new].user_id = v
                          /\ ~s2.db.transactions[new].paid
                          /\ s2.db.transactions[new].ticket_message_id = NoId
                          /\ s2.db.users[v].total_unpaid =
                                 db.users[v].total_unpaid + extract_numeric(t.price)
                          /\ s2.channels = channels /\ s2.tickets = tickets
                          /\ \E x \in s2.tasks : x.pc = "channel" /\ x.tx = new

\* C29 (witness): a charge of users 1 and 2 has processed both: each has a
\* message bound to the transaction of the charge, and each transaction
\* carries the id of its message.
C29_Witness ==
    /\ \E t \in tasks : t.kind = "charge" /\ t.pc = "report" /\ t.processed = <<1, 2>>
    /\ Len(tickets) = 2 /\ Len(db.transactions) = 2
    /\ \A k \in {1, 2} :
          /\ tickets[k].user = k /\ tickets[k].transaction_id = k
          /\ db.transactions[k].user_id = k /\ db.transactions[k].ticket_message_id = k

\* the pass is about to edit the message of its ticket: it has decided to
\* attach a control
Attaching(x, t) == x.kind = "ready" /\ x.pc = "edit" /\ x.idx = t.idx

\* C30: the pass decides to attach a control for an active ticket only when,
\* as it looks, a channel matches the stored username, the fetch of the
\* stored message has returned it, the ticket's user is a member of the
\* guild and the admin it binds is an elevated member of the channel.  The
\* control is attached only when the edit of the message returns; it is
\* then bound to the user and the transaction_id of the ticket's row, no
\* other message changes, and the attachment writes nothing to the store.
C30_ReattachOnlyLiveTickets ==
    \A t \in tasks :
        t.kind = "ready" =>
            LET transaction == t.active_tickets[t.idx]
                m == transaction.ticket_message_id
            IN  /\ channel_for(Cur, transaction.username) # NoId \/ ~tickets[m].alive
                /\ t.pc = "fetch" =>
                      \A outcome \in {"returned", "not_found", "error"},
                         first \in channel_admins(Cur) \cup {NoId} :
                          LET s2 == ready_fetch(Cur, t, outcome, first)
                          IN  /\ s2.tickets = tickets
                              /\ \A x \in s2.tasks :
                                    Attaching(x, t) =>
                                        /\ outcome = "returned"
                                        /\ transaction.user_id \in members
                                        /\ channel_admins(Cur) # {}
                                        /\ x.actor \in channel_admins(Cur)
                /\ t.pc = "edit" =>
                      \A outcome \in {"returned", "not_found", "error"} :
                          LET s2 == reattach(Cur, t, outcome)
                          IN  /\ s2.db = db
                              /\ \A k \in TicketIds(Cur) \ {m} : s2.tickets[k] = tickets[k]
                              /\ outcome # "returned" => s2.tickets = tickets
                              /\ outcome = "returned" =>
                                    /\ s2.tickets[m].attached
                                    /\ s2.tickets[m].user = transaction.user_id
                                    /\ s2.tickets[m].transaction_id
                                           = transaction.transaction_id
                                    /\ s2.tickets[m].admin = t.actor
                                    /\ db.transactions[transaction.transaction_id].user_id
                                           = transaction.user_id

\* C30 (witness): the pass has attached a control to the message of its
\* first active ticket and is at its second one.
C30_Witness ==
    \E t \in tasks :
        /\ t.kind = "ready" /\ t.idx = 2 /\ t.restored_count = 1
        /\ tickets[t.active_tickets[1].ticket_message_id].attached
        /\ tickets[t.active_tickets[1].ticket_message_id].user = t.active_tickets[1].user_id

(***************************************************************************)
(* Claims about the connection pool.                                       *)
(***************************************************************************)
\* C31: between two store operations no connection is checked out, however
\* many of the operations before have raised; and whatever the next
\* operation meets (it returns, a statement raises a connection error or
\* another error), a connection is there for it and is back in the pool
\* when the call is over.
C31_ConnectionsAlwaysReturned ==
    /\ pool.used = 0
    /\ ~getconn(pool.used).raised
    /\ \A c \in PoolCalls :
          \A fault \in Faults(c) :
              wrapper(pool.used, db, c, fault, clock + 1).used = 0

\* C31 (witness): as many calls as the bound allows have raised, among them
\* calls after rows were committed.
C31_Witness ==
    /\ pool.raised = MaxFailures
    /\ Len(db.transactions) > 0

(***************************************************************************)
(* Claims about all the flows together.                                    *)
(***************************************************************************)
\* C32: in every state the flows of the bot reach (charge, Submit Proof,
\* Verify, reconciliation, in any order and interleaving), every user's
\* total_unpaid is at least 0.
C32_BalanceNeverNegative ==
    \A u \in UserIds : db.users[u].total_unpaid >= 0

\* C32 (witness): a Verify has reset user 1's balance and a later charge has
\* raised it again: user 1 has a paid and an unpaid transaction and owes the
\* price of one.
C32_Witness ==
    /\ \E t \in TxIds(db) : db.transactions[t].user_id = 1 /\ db.transactions[t].paid
    /\ \E t \in TxIds(db) : db.transactions[t].user_id = 1 /\ ~db.transactions[t].paid
    /\ db.users[1].total_unpaid = extract_numeric(LUNCH_PRICE)

\* C33 (counterexample): no step of the flows takes a transaction that is
\* paid back to unpaid.
C33_PaidIsMonotonic ==
    [][\A t \in TxIds(db) : db.transactions[t].paid => db'.transactions[t].paid]_vars

\* C34 (counterexample): a step marks a transaction as paid only when a
\* Submit Proof has succeeded on a control of the transaction's user (the
\* control has its submit button disabled: it awaits verification).
C34_PaidOnlyAfterProof ==
    [][\A t \in TxIds(db) :
          (~db.transactions[t].paid /\ db'.transactions[t].paid) =>
              \E k \in TicketIds(Cur) :
                  /\ tickets[k].user = db.transactions[t].user_id
                  /\ tickets[k].submit_disabled]_vars

\* C35 (counterexample): when a charge has deleted every old message of the
\* user whose turn it is and its post succeeds, no unpaid transaction of the
\* user references a message that has been deleted: every message id
\* tracked for the user is the new message or a message still in the channel.
C35_OnlyNewMessageTracked ==
    \A t \in tasks :
        (/\ t.kind = "charge" /\ t.pc = "post"
         /\ \A m \in t.old_messages : ~tickets[m].alive) =>
            \A m \in get_user_ticket_message_ids(
                         charge_post(Cur, t, TRUE).db, TurnUser(t)) :
                m = Len(tickets) + 1 \/ tickets[m].alive

\* C36 (counterexample): with one pending image of a user, two Submit Proof
\* invocations of that user, one after the other with no upload between
\* them, on the same control or on two controls bound to the user, do not
\* both get past the image check to update_transaction: at most one of them
\* holds the image.
C36_ImageConsumedOnce ==
    \A k1 \in TicketIds(Cur), k2 \in TicketIds(Cur) :
        LET u  == tickets[k1].user
            s1 == submit_payment(Cur, k1, u)
            s2 == submit_payment(s1, k2, u)
        IN  (/\ tickets[k2].user = u
             /\ images[u] # NULL
             /\ \A k \in {k1, k2} : tickets[k].alive /\ tickets[k].attached
                                    /\ ~tickets[k].shown_disabled
             /\ ~\E t \in tasks : t.kind = "submit") =>
                Cardinality({t \in s2.tasks : /\ t.kind = "submit" /\ t.pc = "write"
                                              /\ t.image = images[u]}) <= 1

\* C37 (counterexample): once a Verify has marked every transaction of a
\* user paid, deleted the messages of the channel and posted its
\* verification message, get_active_tickets has no row for the user until a
\* charge inserts a new transaction: no step that inserts no transaction
\* takes the user from having no unpaid transaction to having a row in
\* get_active_tickets.
C37_NoActiveTicketAfterVerify ==
    [][\A u \in UserIds :
          (/\ \E t \in TxIds(db) : db.transactions[t].user_id = u
           /\ Unpaid(db, u) = {}
           /\ verifications[u] = 1
           /\ \A k \in TicketIds(Cur) : tickets[k].user = u => ~tickets[k].alive
           /\ Len(db'.transactions) = Len(db.transactions)) =>
              LET rows == get_active_tickets(db')
              IN  \A i \in 1..Len(rows) : db'.transactions[rows[i]].user_id # u]_vars
====
